---------------------------- MODULE Spec2Model ----------------------------
(***************************************************************************)
(* Model of the legal-assistant bot: RAGService (bot/rag_service.py), the  *)
(* chat log store (bot/database.py) and the agent graph (bot/graph).       *)
(*                                                                         *)
(* Text is a sequence of tokens: "abc" + "de" is <<..>> \o <<..>>, the     *)
(* empty string is <<>>, s.startswith(p) is "p is a prefix of s".          *)
(* asyncio is cooperative: the code between two suspension points (await,  *)
(* yield) is one atomic action.                                            *)
(***************************************************************************)
EXTENDS Integers, Sequences, FiniteSets, Bags, TLC

\* ------------------------------------------------------------------ scope
Users == {1, 2}
Requests == {1, 2, 3}
Tokens == {"a", "b"}
Capacities == {1, 2}
Exceptions == {<<"Graph Error">>}
\* Spec: get_answer calls started, events per stream
MaxInteractions == 2
MaxEvents == 1
\* SpecWindow: get_answer calls started
WindowInteractions == 4
\* SpecStream: events per stream
StreamEvents == 3
\* SpecResources: documents a retrieval returns
MaxDocs == 2
\* SpecClear, SpecGate: get_answer calls started
ClearInteractions == 2
GateInteractions == 3
\* SpecGraph: tool-calling model turns per run, tool calls per turn
MaxRounds == 2
MaxCalls == 2

None == [none |-> TRUE]

\* ------------------------------------------------------------------ state
VARIABLES
    history,        \* RAGService.history: user_id -> list of messages (a dict: partial)
    capacity,       \* config.LLM_CONCURRENCY, read once by RAGService.__init__
    llm_semaphore,  \* asyncio.Semaphore: [value, waiters]
    req,            \* the get_answer generators: one frame per request slot
    log_tasks,      \* log_chat tasks created by asyncio.create_task, not yet run
    chat_logs,      \* table chat_logs, in id order
    started,        \* number of get_answer (or process_question) calls started
    completed,      \* per user: the (question, answer) pairs recorded since the last reset
    propagated,     \* exceptions that left an operation towards its caller
    last_reset,     \* the latest run of consecutive reset_history calls on one user
    last_clear,     \* the latest run of consecutive clear_chat_history calls on one user
    gSeed,          \* the input_state of the graph run
    gMessages,      \* AgentState["messages"]
    gNode,          \* the node the graph runs next
    gPath,          \* the nodes run so far: [node, len], len = messages after the step
    gRaw,           \* what CoreToolNode.ainvoke did in the latest tools step
    res_env,        \* what initialization finds: index directory, lexical index, reranker
    res_status,     \* initialize_bot_resources: "none" (not run), "ok", "raised"
    retriever,      \* bot.graph.tools._retriever
    set_calls,      \* number of set_retriever calls
    last_search,    \* the latest search_laws call: its world, retriever and result
    last_calc,      \* the latest calculator call: its tool, arguments and reported amounts
    last_reply,     \* the latest message.answer of a main.py handler: [user_id, text]
    config,         \* module bot.config: the environment, the import's outcome, the values
    pq,             \* handlers/chat.py process_question: one frame per request slot
    llm_lock,       \* the asyncio.Lock handed to the chat handlers: [value, waiters]
    finished        \* per user: the (question, answer) pairs of the calls that returned

svcVars == <<history, capacity, llm_semaphore, req, log_tasks, chat_logs, started,
             completed, propagated, last_reset, last_clear>>
graphVars == <<gSeed, gMessages, gNode, gPath, gRaw>>
resVars == <<res_env, res_status, retriever, set_calls, last_search, last_calc>>
chatVars == <<pq, llm_lock, finished>>
appVars == <<last_reply, config, chatVars>>
vars == <<svcVars, graphVars, resVars, appVars>>

\* ------------------------------------------------------------------ text and messages
MSG_TOOL_STATUS == <<"tool-status">>
MSG_APOLOGY == <<"apology">>
SYSTEM_PROMPT == <<"system-prompt">>
MSG_TOOL_ERROR_PREFIX == <<"tool-error-prefix">>
MSG_TOOL_ERROR_SUFFIX == <<"tool-error-suffix">>
MSG_TOOL_CRITICAL_ERROR == <<"tool-critical-error">>
ERROR_COLON == <<"Error:">>

Message(type, content, tool_calls, tool_call_id, status) ==
    [type |-> type, content |-> content, tool_calls |-> tool_calls,
     tool_call_id |-> tool_call_id, status |-> status]
SystemMessage(c) == Message("system", c, <<>>, 0, "none")
HumanMessage(c) == Message("human", c, <<>>, 0, "none")
AIMessage(c) == Message("ai", c, <<>>, 0, "none")
AIMessageCalls(c, calls) == Message("ai", c, calls, 0, "none")
ToolMessage(c, id, status) == Message("tool", c, <<>>, id, status)

\* Python s[-n:] for n > 0
LastN(s, n) == IF Len(s) <= n THEN s ELSE SubSeq(s, Len(s) - n + 1, Len(s))

StartsWith(s, p) == Len(s) >= Len(p) /\ SubSeq(s, 1, Len(p)) = p

\* the window kept and seeded: 3 pairs
HISTORY_WINDOW == 6

\* str(e) of the KeyError raised by self.history[user_id] for a missing key
KeyErrorText == <<"KeyError">>

\* ------------------------------------------------------------------ stream events
ToolStart == [content |-> <<>>, event |-> "on_tool_start", has_chunk |-> FALSE, is_str |-> FALSE]
TokenChunk(t) == [content |-> <<t>>, event |-> "on_chat_model_stream", has_chunk |-> TRUE, is_str |-> TRUE]
EmptyChunk == [content |-> <<>>, event |-> "on_chat_model_stream", has_chunk |-> TRUE, is_str |-> TRUE]
ListChunk == [content |-> <<"block">>, event |-> "on_chat_model_stream", has_chunk |-> TRUE, is_str |-> FALSE]
NoChunk == [content |-> <<>>, event |-> "on_chat_model_stream", has_chunk |-> FALSE, is_str |-> FALSE]
OtherEvent == [content |-> <<>>, event |-> "on_chain_start", has_chunk |-> FALSE, is_str |-> FALSE]

GraphEvents == {ToolStart, EmptyChunk, ListChunk, NoChunk, OtherEvent} \cup {TokenChunk(t) : t \in Tokens}

\* the token text get_answer takes from one event (<<>>: none)
TokenText(e) ==
    IF e.event = "on_chat_model_stream" /\ e.has_chunk /\ e.content # <<>> /\ e.is_str
    THEN e.content
    ELSE <<>>

\* the fragments get_answer yields for one event, in order
Yielded(e) ==
    IF e.event = "on_tool_start" THEN <<MSG_TOOL_STATUS>>
    ELSE IF TokenText(e) # <<>> THEN <<TokenText(e)>>
    ELSE <<>>

\* faulty variant: the new fragment overtakes those yielded before
DeliverFront(delivered, fragments) == fragments \o delivered

\* a yield hands the fragment to the consumer, after those yielded before
Deliver(delivered, fragments) == delivered \o fragments

\* ------------------------------------------------------------------ asyncio.Semaphore
\* waiters: FIFO of [r, done]; done = the future was given a permit by release
\* faulty variant: acquire never waits
LockedNever(sem) == FALSE

Locked(sem) == sem.value = 0 \/ sem.waiters # <<>>

RECURSIVE WakeUpNext(_, _)
\* _wake_up_next: the first waiter not yet done takes a permit
WakeUpNext(sem, i) ==
    IF i > Len(sem.waiters) THEN sem
    ELSE IF ~sem.waiters[i].done
         THEN [value |-> sem.value - 1,
               waiters |-> [sem.waiters EXCEPT ![i].done = TRUE]]
         ELSE WakeUpNext(sem, i + 1)

SemRelease(sem) == WakeUpNext([sem EXCEPT !.value = @ + 1], 1)

RECURSIVE WakeWhilePositive(_)
WakeWhilePositive(sem) ==
    IF sem.value > 0 /\ \E i \in 1..Len(sem.waiters) : ~sem.waiters[i].done
    THEN WakeWhilePositive(WakeUpNext(sem, 1))
    ELSE sem

RemoveWaiter(ws, r) == SelectSeq(ws, LAMBDA w : w.r # r)

\* ------------------------------------------------------------------ RAGService
IdleReq == [delivered |-> <<>>,
            pc |-> "idle",
            user_id |-> 0,
            question |-> <<>>,
            input_state |-> <<>>,
            full_response |-> <<>>,
            emitted |-> <<>>,
            failed |-> FALSE,
            error |-> <<>>]

\* lines 133-134: the user's entry is created if missing
SeedHistory(h, u) == IF u \in DOMAIN h THEN h ELSE (u :> <<>>) @@ h

\* faulty variant: the question is put before the conversation window
SeedMessagesQuestionFirst(h, u, q) ==
    <<SystemMessage(SYSTEM_PROMPT), HumanMessage(q)>> \o LastN(h[u], HISTORY_WINDOW)

\* lines 137-160
SeedMessages(h, u, q) ==
    <<SystemMessage(SYSTEM_PROMPT)>> \o LastN(h[u], HISTORY_WINDOW) \o <<HumanMessage(q)>>

\* faulty variant: keeps the oldest messages
TrimHistoryOldest(msgs) == SubSeq(msgs, 1, IF Len(msgs) < HISTORY_WINDOW THEN Len(msgs) ELSE HISTORY_WINDOW)

\* line 191
TrimHistory(msgs) == LastN(msgs, HISTORY_WINDOW)

\* faulty variant: the request writes back a list of its own with its pair
AppendPairOverwrite(h, u, q, a) ==
    [h EXCEPT ![u] = TrimHistory(<<HumanMessage(q), AIMessage(a)>>)]

\* faulty variant: an empty answer is not stored
AppendPairAnswered(h, u, q, a) ==
    [h EXCEPT ![u] = TrimHistory(@ \o (IF a = <<>> THEN <<HumanMessage(q)>>
                                                  ELSE <<HumanMessage(q), AIMessage(a)>>))]

\* lines 189-191
AppendPair(h, u, q, a) ==
    [h EXCEPT ![u] = TrimHistory(@ \o <<HumanMessage(q), AIMessage(a)>>)]

\* faulty variant: the task is created in the stream loop and again after it
ScheduleLogTwice(tasks, row) == tasks (+) SetToBag({row}) (+) SetToBag({row})

\* line 195: asyncio.create_task(log_chat(...)), not awaited
ScheduleLog(tasks, row) == tasks (+) SetToBag({row})

\* faulty variant: the handler yields the exception text
ExceptYieldText(e) == <<e>>

\* lines 199-201: what the handler yields for exception text e, and what it re-raises
ExceptYield(e) == <<MSG_APOLOGY>>
ExceptRaise(e) == {}

\* faulty variant: del self.history[user_id] without the membership test
reset_history_unguarded(h, u) ==
    IF u \in DOMAIN h
    THEN [history |-> [x \in DOMAIN h \ {u} |-> h[x]], raised |-> {}]
    ELSE [history |-> h, raised |-> {KeyErrorText}]

\* reset_history: [history, raised]
reset_history(h, u) ==
    IF u \in DOMAIN h
    THEN [history |-> [x \in DOMAIN h \ {u} |-> h[x]], raised |-> {}]
    ELSE [history |-> h, raised |-> {}]

SvcInit(caps) ==
    /\ history = <<>>
    /\ capacity \in caps
    /\ llm_semaphore = [value |-> capacity, waiters |-> <<>>]
    /\ req = [r \in Requests |-> IdleReq]
    /\ log_tasks = EmptyBag
    /\ chat_logs = <<>>
    /\ started = 0
    /\ completed = [u \in Users |-> <<>>]
    /\ propagated = {}
    /\ last_reset = None
    /\ last_clear = None

\* get_answer up to the first suspension: seeding, then the semaphore
GetAnswerStart(r, u, q) ==
    /\ req[r].pc = "idle"
    /\ started' = started + 1
    /\ history' = SeedHistory(history, u)
    /\ LET frame == [IdleReq EXCEPT !.user_id = u, !.question = q,
                                    !.input_state = SeedMessages(history', u, q)]
       IN IF ~Locked(llm_semaphore)
          THEN /\ llm_semaphore' = [llm_semaphore EXCEPT !.value = @ - 1]
               /\ req' = [req EXCEPT ![r] = [frame EXCEPT !.pc = "streaming"]]
          ELSE /\ llm_semaphore' = [llm_semaphore EXCEPT
                                      !.waiters = Append(@, [done |-> FALSE, r |-> r])]
               /\ req' = [req EXCEPT ![r] = [frame EXCEPT !.pc = "waiting"]]
    /\ last_reset' = IF u \notin DOMAIN history /\ last_reset # None /\ last_reset.user_id = u
                     THEN None ELSE last_reset
    /\ UNCHANGED <<capacity, log_tasks, chat_logs, completed, propagated, last_clear>>
    /\ UNCHANGED <<graphVars, resVars>>

\* a waiter whose future was set resumes inside acquire()
AcquireResume(r) ==
    /\ req[r].pc = "waiting"
    /\ \E i \in 1..Len(llm_semaphore.waiters) :
          llm_semaphore.waiters[i].r = r /\ llm_semaphore.waiters[i].done
    /\ llm_semaphore' = WakeWhilePositive(
          [llm_semaphore EXCEPT !.waiters = RemoveWaiter(@, r)])
    /\ req' = [req EXCEPT ![r].pc = "streaming"]
    /\ UNCHANGED <<history, capacity, log_tasks, chat_logs, started, completed,
                   propagated, last_reset, last_clear>>
    /\ UNCHANGED <<graphVars, resVars, appVars>>

\* one event of graph.astream_events, lines 168-186
StreamEvent(r, e) ==
    /\ req[r].pc = "streaming"
    /\ req' = [req EXCEPT ![r].emitted = Append(@, e),
                          ![r].full_response = @ \o TokenText(e),
                          ![r].delivered = Deliver(@, Yielded(e))]
    /\ UNCHANGED <<history, capacity, llm_semaphore, log_tasks, chat_logs, started,
                   completed, propagated, last_reset, last_clear>>
    /\ UNCHANGED <<graphVars, resVars, appVars>>

\* the exception with text e reaches line 199 (the semaphore is already released)
Except(r, e) ==
    /\ req' = [req EXCEPT ![r].pc = "done", ![r].failed = TRUE, ![r].error = e,
                          ![r].delivered = Deliver(@, ExceptYield(e))]
    /\ propagated' = propagated \cup ExceptRaise(e)

\* the stream ends: the semaphore is released and lines 189-197 run
StreamEnd(r) ==
    /\ req[r].pc = "streaming"
    /\ llm_semaphore' = SemRelease(llm_semaphore)
    /\ LET u == req[r].user_id
           q == req[r].question
           a == req[r].full_response
       IN IF u \in DOMAIN history
          THEN /\ history' = AppendPair(history, u, q, a)
               /\ log_tasks' = ScheduleLog(log_tasks, [user_id |-> u, question |-> q, answer |-> a])
               /\ completed' = [completed EXCEPT ![u] = Append(@, <<q, a>>)]
               /\ req' = [req EXCEPT ![r].pc = "done"]
               /\ last_reset' = IF last_reset # None /\ last_reset.user_id = u
                                THEN None ELSE last_reset
               /\ UNCHANGED propagated
          ELSE \* KeyError at line 189
               /\ Except(r, KeyErrorText)
               /\ UNCHANGED <<history, log_tasks, completed, last_reset>>
    /\ UNCHANGED <<capacity, chat_logs, started, last_clear>>
    /\ UNCHANGED <<graphVars, resVars, appVars>>

\* faulty variant: the semaphore is acquired and released by hand, and the release
\* is skipped when the stream raises
StreamRaiseLeaks(r, e) ==
    /\ req[r].pc = "streaming"
    /\ Except(r, e)
    /\ UNCHANGED <<history, capacity, llm_semaphore, log_tasks, chat_logs, started,
                   completed, last_reset, last_clear>>
    /\ UNCHANGED <<graphVars, resVars, appVars>>

\* faulty variant: the history update sits in a finally block and runs on failure too
StreamRaiseRecords(r, e) ==
    /\ req[r].pc = "streaming"
    /\ llm_semaphore' = SemRelease(llm_semaphore)
    /\ Except(r, e)
    /\ history' = IF req[r].user_id \in DOMAIN history
                  THEN AppendPair(history, req[r].user_id, req[r].question, req[r].full_response)
                  ELSE history
    /\ UNCHANGED <<capacity, log_tasks, chat_logs, started, completed,
                   last_reset, last_clear>>
    /\ UNCHANGED <<graphVars, resVars, appVars>>

\* the stream raises: async with releases the semaphore, line 199 catches
StreamRaise(r, e) ==
    /\ req[r].pc = "streaming"
    /\ llm_semaphore' = SemRelease(llm_semaphore)
    /\ Except(r, e)
    /\ UNCHANGED <<history, capacity, log_tasks, chat_logs, started, completed,
                   last_reset, last_clear>>
    /\ UNCHANGED <<graphVars, resVars, appVars>>

\* the consumer's async for ends; the slot is free for the next call
GetAnswerReturn(r) ==
    /\ req[r].pc = "done"
    /\ req' = [req EXCEPT ![r] = IdleReq]
    /\ UNCHANGED <<history, capacity, llm_semaphore, log_tasks, chat_logs, started,
                   completed, propagated, last_reset, last_clear>>
    /\ UNCHANGED <<graphVars, resVars, appVars>>

ResetHistory(u) ==
    /\ LET out == reset_history(history, u)
       IN /\ history' = out.history
          /\ propagated' = propagated \cup out.raised
    /\ completed' = [completed EXCEPT ![u] = <<>>]
    /\ last_reset' = IF last_reset # None /\ last_reset.user_id = u
                     THEN [last_reset EXCEPT !.n = 2]
                     ELSE [n |-> 1,
                           user_id |-> u,
                           had |-> u \in DOMAIN history /\ history[u] # <<>>]
    /\ UNCHANGED <<capacity, llm_semaphore, req, log_tasks, chat_logs, started, last_clear>>
    /\ UNCHANGED <<graphVars, resVars>>

\* ------------------------------------------------------------------ bot/database.py
\* a log_chat task commits its INSERT
LogChat(row) ==
    /\ BagIn(row, log_tasks)
    /\ log_tasks' = log_tasks (-) SetToBag({row})
    /\ chat_logs' = Append(chat_logs, row)
    /\ last_clear' = IF last_clear # None /\ last_clear.user_id = row.user_id
                     THEN None ELSE last_clear
    /\ UNCHANGED <<history, capacity, llm_semaphore, req, started, completed,
                   propagated, last_reset>>
    /\ UNCHANGED <<graphVars, resVars, appVars>>

\* a log_chat task fails: the exception is logged, nothing is inserted
LogChatFail(row) ==
    /\ BagIn(row, log_tasks)
    /\ log_tasks' = log_tasks (-) SetToBag({row})
    /\ UNCHANGED <<history, capacity, llm_semaphore, req, chat_logs, started, completed,
                   propagated, last_reset, last_clear>>
    /\ UNCHANGED <<graphVars, resVars, appVars>>

\* faulty variant: DELETE FROM chat_logs without the WHERE clause
clear_chat_history_all(rows, u) == [chat_logs |-> <<>>, raised |-> {}]

\* DELETE FROM chat_logs WHERE user_id = ?: [chat_logs, raised]
clear_chat_history(rows, u) ==
    [chat_logs |-> SelectSeq(rows, LAMBDA row : row.user_id # u), raised |-> {}]

\* get_chat_history: the latest rows of the user, oldest first, as messages
RowsLimit(limit) == IF limit % 2 = 0 THEN limit \div 2 ELSE (limit + 1) \div 2

RECURSIVE RowsToMessages(_)
RowsToMessages(rows) ==
    IF rows = <<>> THEN <<>>
    ELSE (IF Head(rows).question # <<>> THEN <<HumanMessage(Head(rows).question)>> ELSE <<>>)
         \o (IF Head(rows).answer # <<>> THEN <<AIMessage(Head(rows).answer)>> ELSE <<>>)
         \o RowsToMessages(Tail(rows))

get_chat_history(rows, u, limit) ==
    LET mine == SelectSeq(rows, LAMBDA row : row.user_id = u)
        n == RowsLimit(limit)
    IN RowsToMessages(IF n = 0 THEN <<>> ELSE LastN(mine, n))

RowsOf(rows, u) == SelectSeq(rows, LAMBDA row : row.user_id = u)

ClearChatHistory(u) ==
    /\ LET out == clear_chat_history(chat_logs, u)
       IN /\ chat_logs' = out.chat_logs
          /\ propagated' = propagated \cup out.raised
    /\ last_clear' = IF last_clear # None /\ last_clear.user_id = u
                     THEN [last_clear EXCEPT !.n = 2]
                     ELSE [n |-> 1, user_id |-> u, had |-> RowsOf(chat_logs, u) # <<>>]
    /\ UNCHANGED <<history, capacity, llm_semaphore, req, log_tasks, started, completed,
                   last_reset>>
    /\ UNCHANGED <<graphVars, resVars, appVars>>

\* ------------------------------------------------------------------ bot/core/resources.py
\* retrievers as values: the base retriever and whether the reranker wraps it
ChromaRetriever == [retrievers |-> <<"chroma">>, weights |-> <<>>]
EnsembleRetriever == [retrievers |-> <<"chroma", "bm25">>, weights |-> <<5, 5>>]
Unbound == [bound |-> FALSE, reranker |-> FALSE, base |-> [retrievers |-> <<>>, weights |-> <<>>]]
BaseRetriever(base) == [bound |-> TRUE, reranker |-> FALSE, base |-> base]
ContextualCompressionRetriever(base) == [bound |-> TRUE, reranker |-> TRUE, base |-> base]

\* what initialization can find
ResEnvs ==
    [reranker : {"raises", "initialized"},
     dir_exists : BOOLEAN,
     bm25 : {"absent", "raises", "loaded"}]

GoodEnv == [reranker |-> "initialized", dir_exists |-> TRUE, bm25 |-> "loaded"]

\* faulty variant: without a reranker no retriever is bound
initialize_no_fallback(env) ==
    IF ~env.dir_exists \/ env.reranker = "raises"
    THEN [raised |-> TRUE, bound |-> <<>>]
    ELSE [raised |-> FALSE,
          bound |-> <<ContextualCompressionRetriever(
                        IF env.bm25 = "loaded" THEN EnsembleRetriever ELSE ChromaRetriever)>>]

\* initialize_bot_resources: [raised, bound], bound = the arguments of set_retriever
initialize_bot_resources(env) ==
    IF ~env.dir_exists
    THEN [raised |-> TRUE, bound |-> <<>>]
    ELSE LET base_retriever == IF env.bm25 = "loaded" THEN EnsembleRetriever ELSE ChromaRetriever
             final_retriever == IF env.reranker = "initialized"
                                THEN ContextualCompressionRetriever(base_retriever)
                                ELSE BaseRetriever(base_retriever)
         IN [raised |-> FALSE, bound |-> <<final_retriever>>]

ResInit(envs) ==
    /\ res_env \in envs
    /\ res_status = "none"
    /\ retriever = Unbound
    /\ set_calls = 0
    /\ last_search = None
    /\ last_calc = None

\* the state initialization leaves in environment env
ResConstructed(envs) ==
    /\ res_env \in envs
    /\ res_status = "ok"
    /\ retriever = initialize_bot_resources(res_env).bound[1]
    /\ set_calls = 1
    /\ last_search = None
    /\ last_calc = None

InitializeResources ==
    /\ res_status = "none"
    /\ LET out == initialize_bot_resources(res_env)
       IN /\ res_status' = IF out.raised THEN "raised" ELSE "ok"
          /\ retriever' = IF out.bound = <<>> THEN retriever ELSE out.bound[Len(out.bound)]
          /\ set_calls' = set_calls + Len(out.bound)
    /\ UNCHANGED <<res_env, last_search, last_calc>>
    /\ UNCHANGED <<svcVars, graphVars, appVars>>

\* ------------------------------------------------------------------ bot/graph/tools.py
MSG_NOT_CONFIGURED == <<"not-configured">>
MSG_NOTHING_FOUND == <<"nothing-found">>
MSG_SEARCH_ERROR == <<"search-error:">>
RERANKER_K == 3

\* documents: page_content and metadata ("" = key absent), score = the reranker's score
Documents ==
    { [page_content |-> "c1", source |-> "s1", chapter |-> "", article |-> "", title |-> "", score |-> 1],
      [page_content |-> "c2", source |-> "s2", chapter |-> "ch2", article |-> "art2", title |-> "t2", score |-> 3],
      [page_content |-> "c3", source |-> "", chapter |-> "", article |-> "art3", title |-> "", score |-> 2] }

\* sequences of distinct documents, at most n long
DocLists(n) ==
    {l \in UNION {[1..k -> Documents] : k \in 0..n} :
        \A i, j \in 1..Len(l) : i # j => l[i] # l[j]}

\* what a query meets: the base retriever's result and the reranker's behaviour
SearchWorlds(n) ==
    [base_raises : BOOLEAN, docs : DocLists(n), rerank_raises : BOOLEAN]

\* CrossEncoderReranker.compress_documents: the top_n by score, best first
RECURSIVE SortByScore(_)
SortByScore(docs) ==
    IF docs = <<>> THEN <<>>
    ELSE LET best == CHOOSE i \in 1..Len(docs) :
                        \A j \in 1..Len(docs) :
                            docs[j].score < docs[i].score \/ (docs[j].score = docs[i].score /\ i <= j)
         IN <<docs[best]>> \o SortByScore([k \in 1..(Len(docs) - 1) |->
                                              IF k < best THEN docs[k] ELSE docs[k + 1]])

Rerank(docs) == SubSeq(SortByScore(docs), 1, IF Len(docs) < RERANKER_K THEN Len(docs) ELSE RERANKER_K)

\* _retriever.invoke(query): [raised, exc, docs]
InvokeRetriever(rt, world) ==
    IF world.base_raises THEN [raised |-> TRUE, docs |-> <<>>, exc |-> <<"Search failed">>]
    ELSE IF ~rt.reranker \/ world.docs = <<>>
         THEN [raised |-> FALSE, docs |-> world.docs, exc |-> <<>>]
         ELSE IF world.rerank_raises
              THEN [raised |-> TRUE, docs |-> <<>>, exc |-> <<"Reranker failed">>]
              ELSE [raised |-> FALSE, docs |-> Rerank(world.docs), exc |-> <<>>]

Digits == <<"0", "1", "2", "3", "4", "5", "6", "7", "8", "9">>
NumStr(i) == <<Digits[i + 1]>>

\* ", ".join(source_parts)
FullSource(doc) ==
    <<IF doc.source = "" THEN "Unknown" ELSE doc.source>>
        \o (IF doc.chapter # "" THEN <<",", doc.chapter>> ELSE <<>>)
        \o (IF doc.article # "" THEN <<",", doc.article>> ELSE <<>>)

\* faulty variant: enumerate from 0 without the + 1
FormatDocFromZero(i, doc) ==
    <<"doc-header">> \o NumStr(i - 1) \o <<"source:">> \o FullSource(doc) \o <<doc.title>>
        \o <<"text:", doc.page_content>>

\* line 54: one block; i counts from 1 (enumerate's i + 1)
FormatDoc(i, doc) ==
    <<"doc-header">> \o NumStr(i) \o <<"source:">> \o FullSource(doc) \o <<doc.title>>
        \o <<"text:", doc.page_content>>

\* "\n\n".join(results)
RECURSIVE JoinBlocks(_, _)
JoinBlocks(docs, i) ==
    IF i > Len(docs) THEN <<>>
    ELSE (IF i > 1 THEN <<"blank-line">> ELSE <<>>) \o FormatDoc(i, docs[i]) \o JoinBlocks(docs, i + 1)

\* faulty variant: an empty result is reported as an error text
search_laws_empty_is_error(rt, world) ==
    IF ~rt.bound
    THEN [content |-> MSG_NOT_CONFIGURED, raised |-> {}, invoked |-> FALSE]
    ELSE LET res == InvokeRetriever(rt, world)
         IN [content |-> IF res.raised THEN MSG_SEARCH_ERROR \o res.exc
                         ELSE IF res.docs = <<>> THEN ERROR_COLON \o MSG_NOTHING_FOUND
                         ELSE JoinBlocks(res.docs, 1),
             raised |-> {},
             invoked |-> TRUE]

\* search_laws: [content, invoked, raised]
search_laws(rt, world) ==
    IF ~rt.bound
    THEN [content |-> MSG_NOT_CONFIGURED, raised |-> {}, invoked |-> FALSE]
    ELSE LET res == InvokeRetriever(rt, world)
         IN [content |-> IF res.raised THEN MSG_SEARCH_ERROR \o res.exc
                         ELSE IF res.docs = <<>> THEN MSG_NOTHING_FOUND
                         ELSE JoinBlocks(res.docs, 1),
             raised |-> {},
             invoked |-> TRUE]

SearchLaws(world) ==
    /\ LET out == search_laws(retriever, world)
       IN /\ last_search' = [retriever |-> retriever,
                             content |-> out.content,
                             world |-> world,
                             invoked |-> out.invoked]
          /\ propagated' = propagated \cup out.raised
    /\ UNCHANGED <<res_env, res_status, retriever, set_calls, last_calc>>
    /\ UNCHANGED <<history, capacity, llm_semaphore, req, log_tasks, chat_logs, started,
                   completed, last_reset, last_clear>>
    /\ UNCHANGED <<graphVars, appVars>>

\* ------------------------------------------------------------------ agent graph
\* the call identifier of call i of the t-th model turn
CallId(t, i) == t * (MaxCalls + 1) + i

IsToolCalling(m) == m.type = "ai" /\ m.tool_calls # <<>>

\* model turns of this run so far
ModelTurns == Len(SelectSeq(gPath, LAMBDA s : s.node = "agent"))
ToolRounds == Len(SelectSeq(gPath, LAMBDA s : s.node = "tools"))

\* workflow.add_edge(START, "agent"), workflow.add_edge("tools", "agent")
EntryPoint == "agent"
\* faulty variant of the tools edge: the run ends after the tools
ToolsEdgeEnd == "END"
ToolsEdge == "agent"

\* faulty variant: any assistant message is routed to the tools
tools_condition_any_ai(messages) ==
    IF messages[Len(messages)].type = "ai" THEN "tools" ELSE "END"

\* the conditional edge after "agent": langgraph's tools_condition on the last message
tools_condition(messages) ==
    IF IsToolCalling(messages[Len(messages)]) THEN "tools" ELSE "END"

\* lines 50-64: one message of the tool node's result
IsToolError(m) ==
    m.status = "error" \/ (m.content # <<>> /\ StartsWith(m.content, ERROR_COLON))

\* faulty variant: the status of the raw message is kept
RewriteErrorKeepStatus(m) ==
    ToolMessage(MSG_TOOL_ERROR_PREFIX \o m.content \o MSG_TOOL_ERROR_SUFFIX,
                m.tool_call_id, m.status)

RewriteError(m) ==
    ToolMessage(MSG_TOOL_ERROR_PREFIX \o m.content \o MSG_TOOL_ERROR_SUFFIX,
                m.tool_call_id, "error")

\* faulty variant: only the rewritten messages are collected
RewriteResultErrorsOnly(msgs) ==
    LET errors == SelectSeq(msgs, LAMBDA m : m.type = "tool" /\ IsToolError(m))
    IN [i \in 1..Len(errors) |-> RewriteError(errors[i])]

\* lines 45-70
RewriteResult(msgs) ==
    [i \in 1..Len(msgs) |->
        IF msgs[i].type = "tool" /\ IsToolError(msgs[i]) THEN RewriteError(msgs[i]) ELSE msgs[i]]

\* faulty variant: the id of the last pending call is used
CrashResultLastCall(messages, e) ==
    LET last_message == messages[Len(messages)]
    IN IF IsToolCalling(last_message)
       THEN <<ToolMessage(MSG_TOOL_CRITICAL_ERROR \o e \o MSG_TOOL_ERROR_SUFFIX,
                          last_message.tool_calls[Len(last_message.tool_calls)].id, "error")>>
       ELSE <<>>

\* faulty variant: a message is emitted whether or not a call is pending
CrashResultAlways(messages, e) ==
    <<ToolMessage(MSG_TOOL_CRITICAL_ERROR \o e \o MSG_TOOL_ERROR_SUFFIX, 0, "error")>>

\* lines 74-89
CrashResult(messages, e) ==
    LET last_message == messages[Len(messages)]
    IN IF IsToolCalling(last_message)
       THEN <<ToolMessage(MSG_TOOL_CRITICAL_ERROR \o e \o MSG_TOOL_ERROR_SUFFIX,
                          last_message.tool_calls[1].id, "error")>>
       ELSE <<>>

\* safe_tool_node_func: the messages the node returns
safe_tool_node_func(messages, result) ==
    IF result.raised THEN CrashResult(messages, result.exc)
    ELSE RewriteResult(result.messages)

\* what a tool call can come to inside CoreToolNode: [status, content]
ToolOutcomes ==
    { [content |-> <<"result">>, status |-> "success"],
      [content |-> ERROR_COLON \o <<"detail">>, status |-> "success"],
      [content |-> <<"failure">>, status |-> "error"] }

\* CoreToolNode.ainvoke returns one ToolMessage per call of the last message
CoreResult(calls, outs) ==
    [raised |-> FALSE, exc |-> <<>>,
     messages |-> [i \in 1..Len(calls) |-> ToolMessage(outs[i].content, calls[i].id, outs[i].status)]]
CoreRaise(e) == [raised |-> TRUE, exc |-> e, messages |-> <<>>]

GraphSeeds ==
    { <<SystemMessage(SYSTEM_PROMPT), HumanMessage(<<"q1">>)>>,
      <<SystemMessage(SYSTEM_PROMPT), HumanMessage(<<"q0">>), AIMessage(<<"a">>),
        HumanMessage(<<"q1">>)>> }

GraphInit(seeds) ==
    /\ gSeed \in seeds
    /\ gMessages = gSeed
    /\ gNode = "START"
    /\ gPath = <<>>
    /\ gRaw = None

GraphStart ==
    /\ gNode = "START"
    /\ gNode' = EntryPoint
    /\ UNCHANGED <<gSeed, gMessages, gPath, gRaw>>
    /\ UNCHANGED <<svcVars, resVars, appVars>>

\* the step limit of a run: astream_events is called without a config (line 168), so
\* the graph runs under the library's default recursion_limit
RECURSION_LIMIT == 25

\* faulty variant: a run is never out of steps
OutOfStepsNever(path) == FALSE

\* the run has used up its steps
OutOfSteps(path) == Len(path) >= RECURSION_LIMIT

\* where the run goes after a step: to the edge's target, or, with a node still to
\* run and no step left, out with GraphRecursionError
Route(path, target) ==
    IF target # "END" /\ OutOfSteps(path) THEN "OUT_OF_STEPS" ELSE target

\* the reducer of AgentState["messages"]: a node's messages are added at the end
add_messages(left, right) == left \o right

\* faulty variant: the node returns the messages it was given together with the new one
call_model_update_all(messages, response) == messages \o <<response>>

\* line 27: return {"messages": [response]}
call_model_update(messages, response) == <<response>>

\* call_model, then the conditional edge
CallModel(response) ==
    /\ gNode = "agent"
    /\ gMessages' = add_messages(gMessages, call_model_update(gMessages, response))
    /\ gPath' = Append(gPath, [node |-> "agent", len |-> Len(gMessages')])
    /\ gNode' = Route(gPath', tools_condition(gMessages'))
    /\ UNCHANGED <<gSeed, gRaw>>
    /\ UNCHANGED <<svcVars, resVars, appVars>>

\* llm.ainvoke raises: call_model has no handler, the run ends with the exception
CallModelRaise ==
    /\ gNode = "agent"
    /\ gNode' = "RAISED"
    /\ gPath' = Append(gPath, [node |-> "agent", len |-> Len(gMessages)])
    /\ UNCHANGED <<gSeed, gMessages, gRaw>>
    /\ UNCHANGED <<svcVars, resVars, appVars>>

\* safe_tool_node_func, then the edge back
ToolsStep(result) ==
    /\ gNode = "tools"
    /\ gMessages' = add_messages(gMessages, safe_tool_node_func(gMessages, result))
    /\ gPath' = Append(gPath, [node |-> "tools", len |-> Len(gMessages')])
    /\ gNode' = Route(gPath', ToolsEdge)
    /\ gRaw' = result
    /\ UNCHANGED gSeed
    /\ UNCHANGED <<svcVars, resVars, appVars>>

\* ------------------------------------------------------------------ bot/config.py
\* os.getenv gives None for a variable that is not set
Unset == "<unset>"

\* the environments the module is imported in
ConfigEnvs ==
    [BOT_TOKEN : {Unset, "", "token"},
     RETRIEVER_K : {Unset, "abc", "5"},
     MAX_DISTANCE : {Unset, "", "0.45"}]

DefaultEnv == [BOT_TOKEN |-> "token", RETRIEVER_K |-> Unset, MAX_DISTANCE |-> "0.45"]

\* faulty variant: only a variable that is not set is refused
get_env_variable_unset_only(env, name, default, required) ==
    LET value == IF env[name] = Unset THEN default ELSE env[name]
    IN [value |-> value, raised |-> required /\ value = Unset]

\* get_env_variable, lines 12-17: [raised, value]; "not value" holds for None and ""
get_env_variable(env, name, default, required) ==
    LET value == IF env[name] = Unset THEN default ELSE env[name]
    IN [value |-> value, raised |-> required /\ value \in {Unset, ""}]

\* int(value), float(value) in hundredths: <<>> stands for ValueError
ParseInt(value) == IF value = "5" THEN <<5>> ELSE <<>>
ParseFloat(value) == IF value = "0.45" THEN <<45>> ELSE IF value = "5" THEN <<500>> ELSE <<>>

\* get_int_env, lines 19-27
get_int_env(env, name, default) ==
    IF env[name] = Unset THEN default
    ELSE IF ParseInt(env[name]) = <<>> THEN default ELSE ParseInt(env[name])[1]

\* get_float_env, lines 29-37: an optional float, <<>> for None
get_float_env(env, name, default) ==
    IF env[name] = Unset THEN default
    ELSE IF ParseFloat(env[name]) = <<>> THEN default ELSE ParseFloat(env[name])

RETRIEVER_K_DEFAULT == 10

\* the module body, lines 44-66: [raised, values]
import_config(env) ==
    LET token == get_env_variable(env, "BOT_TOKEN", Unset, TRUE)
    IN IF token.raised
       THEN [raised |-> TRUE, values |-> <<>>]
       ELSE [raised |-> FALSE,
             values |-> [BOT_TOKEN |-> token.value,
                         RETRIEVER_K |-> get_int_env(env, "RETRIEVER_K", RETRIEVER_K_DEFAULT),
                         MAX_DISTANCE |-> get_float_env(env, "MAX_DISTANCE", <<>>)]]

\* before the import
\* ------------------------------------------------------------------ handlers/chat.py: frames
IdlePq == [pc |-> "idle",
           user_id |-> 0,
           question |-> <<>>,
           input_state |-> <<>>,
           full_response |-> <<>>,
           emitted |-> <<>>,
           failed |-> FALSE,
           before |-> <<>>,
           display_text |-> <<>>,
           buffer |-> <<>>,
           sent |-> <<>>,
           shown |-> <<>>,
           edit_failed |-> FALSE]

\* no call of process_question yet, the lock free
ChatInit ==
    /\ pq = [r \in Requests |-> IdlePq]
    /\ llm_lock = [value |-> 1, waiters |-> <<>>]
    /\ finished = [u \in Users |-> <<>>]

AppInit(envs) ==
    /\ last_reply = None
    /\ ChatInit
    /\ \E e \in envs : config = [status |-> "none", env |-> e, values |-> <<>>]

\* after the import in DefaultEnv
AppLoaded ==
    /\ last_reply = None
    /\ ChatInit
    /\ config = [status |-> "loaded", env |-> DefaultEnv, values |-> import_config(DefaultEnv).values]

\* "from bot import config" at the top of main.py
ImportConfig ==
    /\ config.status = "none"
    /\ LET out == import_config(config.env)
       IN config' = [config EXCEPT !.status = IF out.raised THEN "raised" ELSE "loaded",
                                   !.values = out.values]
    /\ UNCHANGED <<last_reply, chatVars>>
    /\ UNCHANGED <<svcVars, graphVars, resVars>>

\* ------------------------------------------------------------------ specifications
\* the service with request slots R, users U, questions Q and stream events E,
\* at most maxI calls of get_answer and maxE events per stream
SvcNext(R, U, Q, E, maxI, maxE) ==
    \/ \E r \in R, u \in U, q \in Q :
          started < maxI /\ GetAnswerStart(r, u, <<q>>) /\ UNCHANGED appVars
    \/ \E r \in R : AcquireResume(r)
    \/ \E r \in R, e \in E : Len(req[r].emitted) < maxE /\ StreamEvent(r, e)
    \/ \E r \in R : StreamEnd(r)
    \/ \E r \in R, e \in Exceptions : StreamRaise(r, e)
    \/ \E r \in R : GetAnswerReturn(r)
    \/ \E u \in U : ResetHistory(u) /\ UNCHANGED appVars

DbNext(U) ==
    \/ \E row \in BagToSet(log_tasks) : LogChat(row)
    \/ \E row \in BagToSet(log_tasks) : LogChatFail(row)
    \/ \E u \in U : ClearChatHistory(u)

\* the model answers with text c and k tool calls
ModelStep ==
    \E c \in {<<>>, <<"a">>}, k \in 0..MaxCalls :
        /\ k > 0 => ToolRounds < MaxRounds
        /\ CallModel(AIMessageCalls(c,
              [i \in 1..k |-> [id |-> CallId(ModelTurns + 1, i), name |-> "search_laws"]]))

GraphNext ==
    \/ GraphStart
    \/ ModelStep
    \/ CallModelRaise
    \/ \E outs \in [1..Len(gMessages[Len(gMessages)].tool_calls) -> ToolOutcomes] :
          ToolsStep(CoreResult(gMessages[Len(gMessages)].tool_calls, outs))
    \/ \E e \in Exceptions : ToolsStep(CoreRaise(e))

Init == SvcInit(Capacities) /\ GraphInit({<<>>}) /\ ResConstructed({GoodEnv}) /\ AppLoaded

Next == SvcNext({1, 2}, Users, {"q1"}, {ToolStart, TokenChunk("a")}, MaxInteractions, MaxEvents)

\* two request slots, two users
Spec == Init /\ [][Next]_vars

\* one user, two slots: the history window
NextWindow == SvcNext({1, 2}, {1}, {"q1"}, {TokenChunk("a")}, WindowInteractions, MaxEvents)

SpecWindow == Init /\ [][NextWindow]_vars

\* a gate of capacity 1; request 1 streams every kind of event, request 2 competes
InitStream == SvcInit({1}) /\ GraphInit({<<>>}) /\ ResConstructed({GoodEnv}) /\ AppLoaded

NextStream ==
    \/ SvcNext({1}, {1}, {"q1"}, GraphEvents, 2, StreamEvents)
    \/ SvcNext({2}, {1}, {"q1"}, {TokenChunk("a")}, 2, MaxEvents)

SpecStream == InitStream /\ [][NextStream]_vars

\* two slots with the chat log store
NextClear ==
    \/ SvcNext({1, 2}, {1}, {"q1"}, {TokenChunk("a")}, ClearInteractions, MaxEvents)
    \/ DbNext({1})

SpecClear == Init /\ [][NextClear]_vars

\* what the event loop and the stream guarantee: a woken waiter resumes, a stream
\* ends or raises
Leave(r) == StreamEnd(r) \/ \E e \in Exceptions : StreamRaise(r, e)

\* three slots at the gate; request 1 streams events, the others' streams are empty
NextGate ==
    \/ SvcNext({1}, {1}, {"q1"}, {ToolStart}, GateInteractions, MaxEvents)
    \/ SvcNext(Requests \ {1}, {1}, {"q1"}, {}, GateInteractions, MaxEvents)

SpecGate ==
    /\ Init
    /\ [][NextGate]_vars
    /\ \A r \in Requests : WF_vars(AcquireResume(r)) /\ WF_vars(Leave(r))

\* two users at a gate of capacity 1, each with their own slot, question and token,
\* and the chat log store
NextIsolation ==
    \/ SvcNext({1}, {1}, {"q1"}, {TokenChunk("a")}, MaxInteractions, MaxEvents)
    \/ SvcNext({2}, {2}, {"q2"}, {TokenChunk("b")}, MaxInteractions, MaxEvents)
    \/ DbNext(Users)

InitIsolation == SvcInit({1}) /\ GraphInit({<<>>}) /\ ResConstructed({GoodEnv}) /\ AppLoaded

SpecIsolation == InitIsolation /\ [][NextIsolation]_vars

\* initialization in every environment, then searches
InitResources == SvcInit({1}) /\ GraphInit({<<>>}) /\ ResInit(ResEnvs) /\ AppLoaded

NextResources ==
    \/ InitializeResources
    \/ \E world \in SearchWorlds(MaxDocs) : SearchLaws(world)

SpecResources == InitResources /\ [][NextResources]_vars

\* the agent graph with search_laws as the tool of every call
SearchCases ==
    { [base_raises |-> FALSE, docs |-> <<>>, rerank_raises |-> FALSE],
      [base_raises |-> FALSE,
       docs |-> <<CHOOSE d \in Documents : d.page_content = "c2">>, rerank_raises |-> FALSE],
      [base_raises |-> TRUE, docs |-> <<>>, rerank_raises |-> FALSE] }

\* CoreToolNode runs search_laws for each call and wraps the returned text
SearchResult(calls, worlds) ==
    [raised |-> FALSE,
     exc |-> <<>>,
     messages |-> [i \in 1..Len(calls) |->
                      ToolMessage(search_laws(retriever, worlds[i]).content, calls[i].id, "success")],
     worlds |-> worlds]

SearchToolsStep ==
    \E worlds \in [1..Len(gMessages[Len(gMessages)].tool_calls) -> SearchCases] :
        ToolsStep(SearchResult(gMessages[Len(gMessages)].tool_calls, worlds))

InitSearchGraph == SvcInit({1}) /\ GraphInit(GraphSeeds) /\ ResConstructed({GoodEnv}) /\ AppLoaded

NextSearchGraph == GraphStart \/ ModelStep \/ SearchToolsStep

SpecSearchGraph == InitSearchGraph /\ [][NextSearchGraph]_vars

\* the agent graph alone: one run from a seeded state
InitGraph == SvcInit({1}) /\ GraphInit(GraphSeeds) /\ ResConstructed({GoodEnv}) /\ AppLoaded

SpecGraph == InitGraph /\ [][GraphNext]_vars

\* ------------------------------------------------------------------ agent graph: properties
HasToolsStep == \E i \in 1..Len(gPath) : gPath[i].node = "tools"

\* the latest tools step, the calls pending when it ran and the messages it returned
LatestTools == CHOOSE i \in 1..Len(gPath) :
    gPath[i].node = "tools" /\ \A j \in (i + 1)..Len(gPath) : gPath[j].node # "tools"
PendingCalls == gMessages[gPath[LatestTools - 1].len].tool_calls
ToolResults == SubSeq(gMessages, gPath[LatestTools - 1].len + 1, gPath[LatestTools].len)

\* the messages this run added to its seed
RunMessages == SubSeq(gMessages, Len(gSeed) + 1, Len(gMessages))
FinalAnswer(m) == m.type = "ai" /\ m.tool_calls = <<>>

\* C1: after a TOOLS step the returned messages are tool results, exactly one per
\* call requested by the assistant message before it, each with the identifier of its
\* call, and none with another identifier; on the crash path too.
C1_ResultsCoverCalls ==
    HasToolsStep =>
        /\ Len(ToolResults) = Len(PendingCalls)
        /\ \A i \in 1..Len(ToolResults) :
              /\ ToolResults[i].type = "tool"
              /\ \E c \in 1..Len(PendingCalls) : ToolResults[i].tool_call_id = PendingCalls[c].id
        /\ \A c \in 1..Len(PendingCalls) :
              Cardinality({i \in 1..Len(ToolResults) :
                              ToolResults[i].tool_call_id = PendingCalls[c].id}) = 1

\* C2: a model message without tool calls ends the run at once: it is the last
\* message, the graph is at END, and a run at END ended by the first such message.
C2_EndsAtFirstFinalAnswer ==
    /\ \A i \in 1..Len(RunMessages) :
          FinalAnswer(RunMessages[i]) => i = Len(RunMessages) /\ gNode = "END"
    /\ gNode = "END" =>
          /\ RunMessages # <<>>
          /\ FinalAnswer(RunMessages[Len(RunMessages)])
          /\ gPath[Len(gPath)].node = "agent"

C2_Witness == gNode = "END" /\ ToolRounds >= 1

\* C3: the run is START, MODEL, then TOOLS and MODEL in turns: the first step is
\* MODEL, a TOOLS step directly follows a MODEL step whose message has a tool call,
\* a MODEL step directly follows every TOOLS step, and a run ends after a MODEL step.
C3_Alternation ==
    /\ gPath = <<>> => gNode \in {"START", "agent"}
    /\ gPath # <<>> => gPath[1].node = "agent"
    /\ \A i \in 1..Len(gPath) :
          gPath[i].node = "tools" =>
              /\ i > 1
              /\ gPath[i - 1].node = "agent"
              /\ IsToolCalling(gMessages[gPath[i - 1].len])
              /\ IF i < Len(gPath) THEN gPath[i + 1].node = "agent" ELSE gNode = "agent"
    /\ \A i \in 1..Len(gPath) :
          gPath[i].node = "agent" /\ i < Len(gPath) => gPath[i + 1].node = "tools"
    /\ gNode \in {"END", "RAISED"} => gPath # <<>> /\ gPath[Len(gPath)].node = "agent"

C3_Witness ==
    /\ gNode = "END"
    /\ Len(gPath) = 5
    /\ gPath[2].node = "tools"
    /\ gPath[4].node = "tools"

\* C5: when the tool machinery raises with tool calls pending, the node returns one
\* tool message: status error, the identifier of the first pending call, the critical
\* text around the exception text; nothing is raised and the next step is MODEL.
C5_CrashContained ==
    HasToolsStep /\ gRaw.raised =>
        /\ ToolResults = <<ToolMessage(MSG_TOOL_CRITICAL_ERROR \o gRaw.exc \o MSG_TOOL_ERROR_SUFFIX,
                                       PendingCalls[1].id, "error")>>
        /\ IF LatestTools < Len(gPath) THEN gPath[LatestTools + 1].node = "agent"
           ELSE gNode = "agent"

C5_Witness ==
    /\ HasToolsStep
    /\ gRaw.raised
    /\ Len(PendingCalls) = 2
    /\ LatestTools < Len(gPath)
    /\ gNode = "END"

\* what the claim calls an error result
ClaimedError(m) == m.status = "error" \/ StartsWith(m.content, ERROR_COLON)

\* C6 as amended: an error result is returned as the fixed prefix, then the raw
\* content, then the fixed suffix, with the identifier it had and status error.
C6_ErrorWrapped ==
    HasToolsStep /\ ~gRaw.raised =>
        /\ Len(ToolResults) = Len(gRaw.messages)
        /\ \A i \in 1..Len(gRaw.messages) :
              ClaimedError(gRaw.messages[i]) =>
                  ToolResults[i] =
                      ToolMessage(MSG_TOOL_ERROR_PREFIX \o gRaw.messages[i].content
                                      \o MSG_TOOL_ERROR_SUFFIX,
                                  gRaw.messages[i].tool_call_id, "error")

\* C6 as stated: the raw content is replaced, the fixed message alone is returned.
C6_ErrorReplaced ==
    HasToolsStep /\ ~gRaw.raised =>
        \A i \in 1..Len(gRaw.messages) :
            ClaimedError(gRaw.messages[i]) =>
                ToolResults[i] =
                    ToolMessage(MSG_TOOL_ERROR_PREFIX \o MSG_TOOL_ERROR_SUFFIX,
                                gRaw.messages[i].tool_call_id, "error")

C6_Witness ==
    /\ HasToolsStep
    /\ ~gRaw.raised
    /\ Len(gRaw.messages) = 2
    /\ gRaw.messages[1].status = "success"
    /\ StartsWith(gRaw.messages[1].content, ERROR_COLON)
    /\ gRaw.messages[2].status = "error"
    /\ ~StartsWith(gRaw.messages[2].content, ERROR_COLON)

\* ------------------------------------------------------------------ service: properties
RECURSIVE PairsToMessages(_)
PairsToMessages(pairs) ==
    IF pairs = <<>> THEN <<>>
    ELSE <<HumanMessage(Head(pairs)[1]), AIMessage(Head(pairs)[2])>> \o PairsToMessages(Tail(pairs))

Min(a, b) == IF a < b THEN a ELSE b

\* C4: after N recorded interactions of a user since the last reset the stored
\* history has min(2N, 6) messages: the latest min(N, 3) pairs, oldest first.
C4_Window ==
    \A u \in Users :
        completed[u] # <<>> =>
            /\ u \in DOMAIN history
            /\ Len(history[u]) = Min(2 * Len(completed[u]), 6)
            /\ history[u] = PairsToMessages(LastN(completed[u], 3))

C4_Witness ==
    /\ Len(completed[1]) = 4
    /\ completed[1][1][2] # completed[1][2][2]
    /\ completed[1][3][2] # completed[1][4][2]

InGeneration == {r \in Requests : req[r].pc = "streaming"}

\* C7: never more sessions in the generation section than the gate's capacity, and a
\* request that finds the gate full waits in its queue and is admitted later.
C7_GateBound ==
    /\ [](Cardinality(InGeneration) <= capacity)
    /\ \A r \in Requests :
          [](req[r].pc = "waiting" =>
                /\ \E i \in 1..Len(llm_semaphore.waiters) : llm_semaphore.waiters[i].r = r
                /\ ~req[r].failed)
    /\ \A r \in Requests : (req[r].pc = "waiting") ~> (req[r].pc = "streaming")

C7_Witness ==
    /\ capacity = 2
    /\ Cardinality(InGeneration) = 2
    /\ \E r \in Requests : req[r].pc = "waiting"

\* the fragment the claim assigns to one event
ClaimedOutput(e) ==
    IF e.event = "on_tool_start" THEN <<MSG_TOOL_STATUS>>
    ELSE IF e.event = "on_chat_model_stream" /\ e.has_chunk /\ e.is_str /\ e.content # <<>>
         THEN <<e.content>>
         ELSE <<>>

RECURSIVE ClaimedOutputs(_)
ClaimedOutputs(events) ==
    IF events = <<>> THEN <<>>
    ELSE ClaimedOutput(Head(events)) \o ClaimedOutputs(Tail(events))

\* C8: the fragments delivered are the outputs of the events streamed so far, each
\* once and in the order of the events (then the apology, if the request failed).
C8_OrderPreserved ==
    \A r \in Requests :
        req[r].delivered =
            ClaimedOutputs(req[r].emitted) \o (IF req[r].failed THEN <<MSG_APOLOGY>> ELSE <<>>)

C8_Witness ==
    \E r \in Requests :
        /\ req[r].pc = "done"
        /\ ~req[r].failed
        /\ req[r].emitted = <<TokenChunk("a"), ToolStart, TokenChunk("b")>>

\* permits free + sessions holding one = capacity
GateAccounted ==
    llm_semaphore.value + Cardinality(InGeneration)
        + Cardinality({i \in 1..Len(llm_semaphore.waiters) : llm_semaphore.waiters[i].done})
    = capacity

\* C9: an exception in get_answer never reaches the caller: the request ends with the
\* fixed apology as its last fragment, no fragment carries the exception text, and
\* the gate's permit is back.
C9_FailureContained ==
    /\ propagated = {}
    /\ GateAccounted
    /\ \A r \in Requests :
          req[r].failed =>
              /\ req[r].pc = "done"
              /\ req[r].delivered # <<>>
              /\ req[r].delivered[Len(req[r].delivered)] = MSG_APOLOGY
              /\ \A i \in 1..Len(req[r].delivered) :
                    \A k \in 1..Len(req[r].delivered[i]) :
                        \A j \in 1..Len(req[r].error) :
                            req[r].delivered[i][k] # req[r].error[j]

C9_Witness ==
    /\ capacity = 1
    /\ req[1].pc = "done" /\ req[1].failed /\ req[1].error = KeyErrorText
    /\ req[2].pc = "done" /\ ~req[2].failed
    /\ req[2].user_id = req[1].user_id
    /\ Len(req[2].input_state) = 2

C13_RetrieverChosenOnce ==
    /\ res_env.dir_exists /\ res_status # "none" => res_status = "ok"
    /\ res_status = "ok" =>
          /\ res_env.dir_exists
          /\ set_calls = 1
          /\ retriever.bound
          /\ retriever.reranker = (res_env.reranker = "initialized")
          /\ retriever.base.retrievers =
                (IF res_env.bm25 = "loaded" THEN <<"chroma", "bm25">> ELSE <<"chroma">>)
          /\ retriever.base.weights = (IF res_env.bm25 = "loaded" THEN <<5, 5>> ELSE <<>>)
    /\ last_search # None /\ last_search.invoked =>
          res_status = "ok" /\ last_search.retriever = retriever

C13_Witness ==
    /\ res_status = "ok"
    /\ res_env.bm25 = "raises"
    /\ res_env.reranker = "raises"
    /\ last_search # None
    /\ last_search.invoked
    /\ last_search.world.docs # <<>>
    /\ ~last_search.world.base_raises

\* the blocks search_laws returns for the documents docs
ExpectedBlocks(docs) == JoinBlocks(docs, 1)

\* C14: a reranker that initialized and raises at call time is bypassed: the caller
\* of search_laws gets the base retriever's documents, not an error.
C14_RerankerBypassed ==
    (/\ last_search # None
     /\ last_search.retriever.reranker
     /\ ~last_search.world.base_raises
     /\ last_search.world.docs # <<>>
     /\ last_search.world.rerank_raises)
    => last_search.content = ExpectedBlocks(last_search.world.docs)

\* positions of the token t in the text
Positions(text, t) == {i \in 1..Len(text) : text[i] = t}

\* the k-th (from 1) smallest element of a set of numbers
Nth(S, k) == CHOOSE x \in S : Cardinality({y \in S : y < x}) = k - 1

\* C15: search_laws raises nothing and returns one outcome: the "not configured"
\* message without any retrieval if no retriever is bound, else the error text with
\* the exception text if the retriever raises, else the "nothing found" message if it
\* returns no documents, else one block per document in the retriever's order,
\* the blocks numbered from 1.
C15_SearchOutcome ==
    /\ propagated = {}
    /\ last_search # None =>
          LET rt == last_search.retriever
              res == InvokeRetriever(rt, last_search.world)
              text == last_search.content
              heads == Positions(text, "doc-header")
              bodies == Positions(text, "text:")
          IN IF ~rt.bound THEN text = MSG_NOT_CONFIGURED /\ ~last_search.invoked
             ELSE /\ last_search.invoked
                  /\ IF res.raised THEN text = MSG_SEARCH_ERROR \o res.exc
                     ELSE IF res.docs = <<>> THEN text = MSG_NOTHING_FOUND
                     ELSE /\ Cardinality(heads) = Len(res.docs)
                          /\ Cardinality(bodies) = Len(res.docs)
                          /\ \A k \in 1..Len(res.docs) :
                                /\ text[Nth(heads, k) + 1] = Digits[k + 1]
                                /\ text[Nth(bodies, k) + 1] = res.docs[k].page_content
                                /\ Nth(heads, k) < Nth(bodies, k)
                                /\ k < Len(res.docs) => Nth(bodies, k) < Nth(heads, k + 1)

C15_Witness ==
    /\ last_search # None
    /\ last_search.retriever.bound
    /\ ~last_search.retriever.reranker
    /\ ~last_search.world.base_raises
    /\ Len(last_search.world.docs) = 2
    /\ last_search.world.docs[1].score > last_search.world.docs[2].score
    /\ last_search.world.docs[1].source = ""

\* C16: a search_laws call that found nothing gives a tool result with status
\* success that the tools node returns unchanged, and the next step is the model.
C16_EmptyIsNotAnError ==
    HasToolsStep =>
        \A i \in 1..Len(gRaw.messages) :
            LET res == InvokeRetriever(retriever, gRaw.worlds[i])
            IN ~res.raised /\ res.docs = <<>> =>
                  /\ gRaw.messages[i].status = "success"
                  /\ gRaw.messages[i].content = MSG_NOTHING_FOUND
                  /\ ToolResults[i] = gRaw.messages[i]
                  /\ IF LatestTools < Len(gPath)
                     THEN gPath[LatestTools + 1].node = "agent"
                     ELSE gNode = "agent"

C16_Witness ==
    /\ HasToolsStep
    /\ Len(gRaw.messages) = 2
    /\ ~gRaw.worlds[2].base_raises
    /\ gRaw.worlds[2].docs = <<>>
    /\ gRaw.worlds[1].docs # <<>>
    /\ gNode = "END"

\* ------------------------------------------------------------------ history: properties
\* in SpecIsolation user 1 asks q1 and gets token a, user 2 asks q2 and gets token b
OwnedBy(u, m) ==
    \/ m.type = "system"
    \/ m.type = "human" /\ m.content = (IF u = 1 THEN <<"q1">> ELSE <<"q2">>)
    \/ m.type = "ai" /\ \A k \in 1..Len(m.content) : m.content[k] = (IF u = 1 THEN "a" ELSE "b")

AllOwnedBy(u, msgs) == \A i \in 1..Len(msgs) : OwnedBy(u, msgs[i])

\* the stored history of user b, in memory and in the table
HistOf(b) == IF b \in DOMAIN history THEN <<history[b]>> ELSE <<>>

IsolationOwned ==
    /\ \A u \in DOMAIN history : AllOwnedBy(u, history[u])
    /\ \A r \in Requests : req[r].pc # "idle" => AllOwnedBy(req[r].user_id, req[r].input_state)
    /\ \A u \in Users : AllOwnedBy(u, get_chat_history(chat_logs, u, HISTORY_WINDOW))

IsolationFrame ==
    \A b \in Users :
        /\ HistOf(b)' # HistOf(b) =>
              \/ ResetHistory(b)
              \/ \E r \in Requests : GetAnswerStart(r, b, <<"q1">>) \/ GetAnswerStart(r, b, <<"q2">>)
              \/ \E r \in Requests : req[r].user_id = b /\ StreamEnd(r)
        /\ RowsOf(chat_logs, b)' # RowsOf(chat_logs, b) =>
              \/ ClearChatHistory(b)
              \/ \E row \in BagToSet(log_tasks) : row.user_id = b /\ LogChat(row)

\* C11: the stored history of a user (in memory and in the table) changes only by
\* an operation for that user, and what is stored for a user or seeded into a
\* request of that user holds only that user's messages.
C11_Isolation == [] IsolationOwned /\ [][IsolationFrame]_vars

C11_Witness ==
    /\ 1 \in DOMAIN history /\ Len(history[1]) = 2
    /\ 2 \notin DOMAIN history
    /\ last_reset # None /\ last_reset.user_id = 2 /\ last_reset.had
    /\ last_clear # None /\ last_clear.user_id = 2 /\ last_clear.had
    /\ RowsOf(chat_logs, 1) # <<>>

SeededNow(r) == req[r].pc = "idle" /\ req'[r].pc # "idle"

SeedFrame ==
    \A r \in Requests :
        /\ SeededNow(r) =>
              LET u == req'[r].user_id
                  stored == IF u \in DOMAIN history THEN history[u] ELSE <<>>
                  w == Min(Len(stored), 6)
                  s == req'[r].input_state
              IN /\ Len(s) = w + 2
                 /\ s[1] = SystemMessage(SYSTEM_PROMPT)
                 /\ s[Len(s)] = HumanMessage(req'[r].question)
                 /\ \A i \in 1..w : s[1 + i] = stored[Len(stored) - w + i]
        /\ req[r].pc # "idle" /\ req'[r].pc # "idle" => req'[r].input_state = req[r].input_state

MAX_DISTANCE == 45

\* the best dense distance of the retrieval for a question, in hundredths (0.8)
BestDistance(q) == 80

MSG_REFUSAL == "refusal"

\* C17: with the threshold configured and the best distance above it, get_answer
\* yields the refusal message and no language-model call is made for the request.
C17_RelevanceGate ==
    \A r \in Requests :
        req[r].pc # "idle" /\ BestDistance(req[r].question) > MAX_DISTANCE =>
            /\ \A i \in 1..Len(req[r].emitted) : req[r].emitted[i].event # "on_chat_model_stream"
            /\ req[r].pc = "done" => req[r].delivered = <<MSG_REFUSAL>>

\* ------------------------------------------------------------------ the run as a stream
\* astream_events of one message of the run: a model message streams its content as
\* string chunks, a tool result follows the start of its tool
EventsOf(m) ==
    IF m.type = "ai" THEN [i \in 1..Len(m.content) |-> TokenChunk(m.content[i])]
    ELSE IF m.type = "tool" THEN <<ToolStart>>
    ELSE <<>>

RECURSIVE StreamOf(_)
StreamOf(msgs) == IF msgs = <<>> THEN <<>> ELSE EventsOf(Head(msgs)) \o StreamOf(Tail(msgs))

\* full_response after the events: full_response += content for every string chunk
RECURSIVE Accumulate(_)
Accumulate(events) ==
    IF events = <<>> THEN <<>> ELSE TokenText(Head(events)) \o Accumulate(Tail(events))

\* the answer appended to the history and passed to log_chat when the run has ended
PersistedAnswer == Accumulate(StreamOf(RunMessages))

\* C18: the persisted answer of a completed run is the text of the final assistant
\* message (the one without tool calls), without the text of tool-calling turns.
C18_FinalAnswerPersisted ==
    gNode = "END" /\ RunMessages # <<>> /\ FinalAnswer(gMessages[Len(gMessages)]) =>
        PersistedAnswer = gMessages[Len(gMessages)].content

\* ------------------------------------------------------------------ scheduling of log_chat
Finishes(r) == req[r].pc = "streaming" /\ req'[r].pc = "done" /\ ~req'[r].failed

RowOf(r) == [user_id |-> req[r].user_id, question |-> req[r].question,
             answer |-> req[r].full_response]

LogFrame ==
    /\ \A r \in Requests :
          /\ Finishes(r) =>
                /\ log_tasks' = log_tasks (+) SetToBag({RowOf(r)})
                /\ req'[r].delivered = req[r].delivered
                /\ req'[r].emitted = req[r].emitted
          /\ req[r].pc = "done" /\ req'[r].pc = "done" => req'[r].delivered = req[r].delivered
    /\ (\A r \in Requests : ~Finishes(r)) =>
          BagCardinality(log_tasks') <= BagCardinality(log_tasks)
    /\ BagCardinality(log_tasks') < BagCardinality(log_tasks) => req' = req

\* C19: a successfully completed interaction schedules log_chat exactly once, in the
\* step after the last fragment of its stream, as a task of its own: no other step
\* schedules one, and a step of the write changes no request.
C19_LogScheduledOnce == [][LogFrame]_vars

\* the request has returned while its write is still pending
C19_Witness ==
    /\ \A r \in Requests : req[r].pc = "idle"
    /\ chat_logs = <<>>
    /\ BagCardinality(log_tasks) = 1
    /\ Len(completed[1]) = 1

\* ------------------------------------------------------------------ the loop at length
\* the model answers with no text and at most one call; a call succeeds or fails
LoopModelStep ==
    \E k \in 0..1 :
        CallModel(AIMessageCalls(<<>>,
            [i \in 1..k |-> [id |-> CallId(ModelTurns + 1, i), name |-> "search_laws"]]))

LoopOutcomes == {o \in ToolOutcomes : ~StartsWith(o.content, ERROR_COLON)}

NextLoop ==
    \/ GraphStart
    \/ LoopModelStep
    \/ \E outs \in [1..Len(gMessages[Len(gMessages)].tool_calls) -> LoopOutcomes] :
          ToolsStep(CoreResult(gMessages[Len(gMessages)].tool_calls, outs))

InitLoop ==
    /\ SvcInit({1})
    /\ GraphInit({<<SystemMessage(SYSTEM_PROMPT), HumanMessage(<<"q1">>)>>})
    /\ ResConstructed({GoodEnv}) /\ AppLoaded

SpecLoop == InitLoop /\ [][NextLoop]_vars

\* every model message of the run so far carries tool calls
AllCalling ==
    \A i \in 1..Len(RunMessages) : RunMessages[i].type = "ai" => IsToolCalling(RunMessages[i])

MaxToolRounds == (RECURSION_LIMIT - 1) \div 2

\* C20 (as the code has it): the source sets no ceiling, but a run has at most 25
\* steps: while the model's first n messages all carry tool calls and n <= 12, the
\* loop performs n TOOLS steps and comes to the (n+1)-th MODEL step; a 13th such
\* message in a row ends the run out of steps after 12 TOOLS steps; otherwise the
\* run ends only at a message without tool calls.
C20_StepCeiling ==
    /\ Len(gPath) <= RECURSION_LIMIT
    /\ ToolRounds <= MaxToolRounds
    /\ gNode = "agent" => ToolRounds = ModelTurns
    /\ gNode = "tools" => ToolRounds = ModelTurns - 1 /\ IsToolCalling(gMessages[Len(gMessages)])
    /\ AllCalling /\ ModelTurns <= MaxToolRounds => gNode \in {"START", "agent", "tools"}
    /\ gNode = "OUT_OF_STEPS" =>
          /\ AllCalling
          /\ ModelTurns = MaxToolRounds + 1
          /\ ToolRounds = MaxToolRounds
    /\ gNode = "END" => FinalAnswer(gMessages[Len(gMessages)])
    /\ gNode \in {"START", "agent", "tools", "OUT_OF_STEPS", "END"}

C20_Witness == gNode = "OUT_OF_STEPS"

\* C20 (as stated): there is no ceiling: as long as every model message carries tool
\* calls the run goes on, from each MODEL step to a TOOLS step and on to the next
\* MODEL step.
C20_NoCeiling == AllCalling => gNode \in {"START", "agent", "tools"}

\* ------------------------------------------------------------------ one user, two requests
\* two slots of user 1 with different questions and tokens
NextRace ==
    \/ SvcNext({1}, {1}, {"q1"}, {TokenChunk("a")}, MaxInteractions, MaxEvents)
    \/ SvcNext({2}, {1}, {"q2"}, {TokenChunk("b")}, MaxInteractions, MaxEvents)

InitRace == SvcInit(Capacities) /\ GraphInit({<<>>}) /\ ResConstructed({GoodEnv}) /\ AppLoaded

SpecRace == InitRace /\ [][NextRace]_vars

PairOf(r) == <<HumanMessage(req[r].question), AIMessage(req[r].full_response)>>

\* the conversation window a request was seeded with
SeedWindow(r) == SubSeq(req[r].input_state, 2, Len(req[r].input_state) - 1)

\* r1 and r2 of user u were both seeded before either finished, both have finished
\* without failure, and no reset has happened since the first of them finished
OverlappedAndDone(r1, r2, u) ==
    /\ r1 # r2
    /\ req[r1].pc = "done" /\ req[r2].pc = "done"
    /\ ~req[r1].failed /\ ~req[r2].failed
    /\ req[r1].user_id = u /\ req[r2].user_id = u
    /\ SeedWindow(r1) = SeedWindow(r2)
    /\ Len(completed[u]) >= 2

\* C21 (as the code has it): overlapping requests of one user are not guarded, but
\* the append at the end of a request is made on the stored list without a
\* suspension point: after both have finished the history holds both pairs, in
\* the order of finishing.
C21_BothPairsKept ==
    \A r1, r2 \in Requests, u \in Users :
        OverlappedAndDone(r1, r2, u) =>
            /\ u \in DOMAIN history
            /\ Len(history[u]) >= 4
            /\ LastN(history[u], 4) \in {PairOf(r1) \o PairOf(r2), PairOf(r2) \o PairOf(r1)}

C21_Witness ==
    /\ OverlappedAndDone(1, 2, 1)
    /\ req[1].full_response = <<"a">> /\ req[2].full_response = <<"b">>
    /\ Len(req[1].input_state) = 2 /\ Len(req[2].input_state) = 2
    /\ history[1] = PairOf(2) \o PairOf(1)

\* C21 (as stated): the append is last-writer-wins: after two overlapping requests
\* have finished, the history is the later writer's list, without the pair of the
\* request that finished first.
C21_LastWriterWins ==
    \A r1, r2 \in Requests, u \in Users :
        OverlappedAndDone(r1, r2, u) =>
            u \in DOMAIN history /\ history[u] \in {LastN(SeedWindow(r) \o PairOf(r), 6) : r \in {r1, r2}}

\* ------------------------------------------------------------------ main.py
MSG_BOT_INITIALIZING == <<"initializing">>
MSG_NOT_READY == <<"not-ready">>
MSG_ANALYZING_LAWS == <<"analyzing">>
MSG_HISTORY_CLEARED == <<"history-cleared">>

\* faulty variant: the handlers do not test the service
ServiceReadyAlways(status) == TRUE

\* "if rag_service": main() binds the global only when RAGService() returned
ServiceReady(status) == status = "ok"

Reply(u, text) == [user_id |-> u, text |-> text]

\* main(), lines 151-158: RAGService() builds the retriever; an exception is logged
\* and the global stays None
MainInitialize == config.status = "loaded" /\ InitializeResources

\* handle_message, lines 64-78, with process_question up to the call of get_answer
HandleMessage(r, u, q) ==
    /\ res_status # "none"
    /\ UNCHANGED <<config, chatVars>>
    /\ IF ~ServiceReady(res_status)
       THEN /\ last_reply' = Reply(u, MSG_BOT_INITIALIZING)
            /\ UNCHANGED <<svcVars, graphVars, resVars>>
       ELSE /\ last_reply' = Reply(u, MSG_ANALYZING_LAWS)
            /\ GetAnswerStart(r, u, q)

\* command_reset_handler, lines 53-62
CommandReset(u) ==
    /\ res_status # "none"
    /\ UNCHANGED <<config, chatVars>>
    /\ IF ServiceReady(res_status)
       THEN /\ ResetHistory(u)
            /\ last_reply' = Reply(u, MSG_HISTORY_CLEARED)
       ELSE /\ last_reply' = Reply(u, MSG_NOT_READY)
            /\ UNCHANGED <<svcVars, graphVars, resVars>>

\* the generators started by the handlers run on
SvcRun(R, E, maxE) ==
    /\ \/ \E r \in R : AcquireResume(r)
       \/ \E r \in R, e \in E : Len(req[r].emitted) < maxE /\ StreamEvent(r, e)
       \/ \E r \in R : StreamEnd(r)
       \/ \E r \in R, e \in Exceptions : StreamRaise(r, e)
       \/ \E r \in R : GetAnswerReturn(r)

NextMain ==
    \/ MainInitialize
    \/ \E r \in {1, 2}, u \in Users :
          started < MaxInteractions /\ req[r].pc = "idle" /\ HandleMessage(r, u, <<"q1">>)
    \/ \E u \in Users : CommandReset(u)
    \/ SvcRun({1, 2}, {TokenChunk("a")}, MaxEvents)

InitMain == SvcInit({1}) /\ GraphInit({<<>>}) /\ ResInit(ResEnvs) /\ AppLoaded

SpecMain == InitMain /\ [][NextMain]_vars

NotReadyFrame ==
    res_status = "raised" =>
        /\ UNCHANGED <<svcVars, graphVars, resVars>>
        /\ last_reply' # last_reply =>
              last_reply'.text \in {MSG_BOT_INITIALIZING, MSG_NOT_READY}

\* C22: with the service not initialized, a text message is answered with the
\* "initializing" message and a reset with the "not ready" message; nothing is
\* started, no graph is run, no history changes, no exception leaves a handler, and
\* the handlers go on answering.
C22_NotReady ==
    /\ [](res_status = "raised" =>
            /\ history = <<>> /\ started = 0 /\ propagated = {} /\ gNode = "START"
            /\ \A r \in Requests : req[r] = IdleReq
            /\ last_reply # None => last_reply.text \in {MSG_BOT_INITIALIZING, MSG_NOT_READY})
    /\ [][NotReadyFrame]_vars

C22_Witness ==
    /\ res_status = "raised"
    /\ last_reply = Reply(2, MSG_NOT_READY)

\* ------------------------------------------------------------------ bot/graph/tools.py: calculators
\* amounts are exact fractions [num, den] in lowest terms, den > 0
RECURSIVE GCD(_, _)
GCD(a, b) == IF b = 0 THEN a ELSE GCD(b, a % b)

Rat(n, d) == LET g == GCD(n, d) IN IF g = 0 THEN [num |-> 0, den |-> 1] ELSE [num |-> n \div g, den |-> d \div g]
RatMul(x, y) == Rat(x.num * y.num, x.den * y.den)
RatDiv(x, y) == Rat(x.num * y.den, x.den * y.num)

\* f"{x:,.2f}": the amount in hundredths, rounded to the nearest; an amount exactly
\* between two hundredths goes either way, depending on its binary representation
Format2f(x) ==
    LET scaled == x.num * 100
        low == scaled \div x.den
        twice == 2 * (scaled % x.den)
    IN IF twice < x.den THEN {low}
       ELSE IF twice > x.den THEN {low + 1}
       ELSE {low, low + 1}

\* the prices and delays the calculators are called with
Prices == {0, 1, 50, 999, 100000, 10000000}
MaxDelay == 35

\* rate = 21.0
RATE_214FZ == 21

\* faulty variant: the rate is not taken as a percentage
DailyPenaltyNoPercent(price) == RatDiv(RatMul(Rat(price, 1), Rat(RATE_214FZ, 1)), Rat(300, 1))

\* daily_penalty = (price * (rate / 100)) / 300
DailyPenalty(price) == RatDiv(RatMul(Rat(price, 1), Rat(RATE_214FZ, 100)), Rat(300, 1))

\* calculate_penalty_214fz: the two amounts it formats
calculate_penalty_214fz(price, delay_days) ==
    LET total_penalty == RatMul(DailyPenalty(price), Rat(delay_days, 1))
    IN [total |-> total_penalty, doubled |-> RatMul(total_penalty, Rat(2, 1))]

Calculate214fz(price, delay_days) ==
    /\ LET out == calculate_penalty_214fz(price, delay_days)
       IN \E t \in Format2f(out.total), d \in Format2f(out.doubled) :
             last_calc' = [shown |-> <<t, d>>,
                           price |-> price,
                           delay_days |-> delay_days,
                           tool |-> "214fz",
                           amounts |-> out]
    /\ UNCHANGED <<res_env, res_status, retriever, set_calls, last_search>>
    /\ UNCHANGED <<svcVars, graphVars, appVars>>

\* faulty variant: the amount for services is capped at the price
ServicesPenaltyCapped(price, delay_days) ==
    LET raw == RatMul(RatMul(Rat(price, 1), Rat(3, 100)), Rat(delay_days, 1))
    IN IF raw.num > price * raw.den THEN Rat(price, 1) ELSE raw

\* penalty_3_percent = price * 0.03 * delay_days
ServicesPenalty(price, delay_days) ==
    RatMul(RatMul(Rat(price, 1), Rat(3, 100)), Rat(delay_days, 1))

\* calculate_penalty_zpp: the two amounts it formats
calculate_penalty_zpp(price, delay_days) ==
    [goods |-> RatMul(RatMul(Rat(price, 1), Rat(1, 100)), Rat(delay_days, 1)),
     services |-> ServicesPenalty(price, delay_days)]

CalculateZpp(price, delay_days) ==
    /\ LET out == calculate_penalty_zpp(price, delay_days)
       IN \E g \in Format2f(out.goods), s \in Format2f(out.services) :
             last_calc' = [shown |-> <<g, s>>,
                           price |-> price,
                           delay_days |-> delay_days,
                           tool |-> "zpp",
                           amounts |-> out]
    /\ UNCHANGED <<res_env, res_status, retriever, set_calls, last_search>>
    /\ UNCHANGED <<svcVars, graphVars, appVars>>

NextCalc ==
    \/ \E price \in Prices, delay_days \in 0..MaxDelay : Calculate214fz(price, delay_days)
    \/ \E price \in Prices, delay_days \in 0..MaxDelay : CalculateZpp(price, delay_days)

InitCalc == SvcInit({1}) /\ GraphInit({<<>>}) /\ ResConstructed({GoodEnv}) /\ AppLoaded

SpecCalc == InitCalc /\ [][NextCalc]_vars

\* C23: calculate_penalty_214fz computes total = price * 21/100 / 300 * delay_days
\* and a doubled figure of exactly 2 * total, and reports both to the hundredth;
\* 10,000,000 and 5 days give 35,000.00 and 70,000.00.
C23_Penalty214 ==
    last_calc # None /\ last_calc.tool = "214fz" =>
        LET c == last_calc
            expected == RatMul(Rat(c.price * 7, 10000), Rat(c.delay_days, 1))
        IN /\ c.amounts.total = expected
           /\ RatDiv(c.amounts.doubled, Rat(2, 1)) = c.amounts.total
           /\ c.shown[1] \in Format2f(expected)
           /\ c.shown[2] \in Format2f(RatMul(expected, Rat(2, 1)))
           /\ c.price = 10000000 /\ c.delay_days = 5 => c.shown = <<3500000, 7000000>>

C23_Witness ==
    /\ last_calc # None /\ last_calc.tool = "214fz"
    /\ last_calc.price = 10000000 /\ last_calc.delay_days = 5
    /\ last_calc.shown = <<3500000, 7000000>>

\* C24: calculate_penalty_zpp computes goods = price * 1/100 * delay_days and
\* services = price * 3/100 * delay_days = 3 * goods, neither capped at the price;
\* 100,000 and 5 days give 5,000.00 and 15,000.00.
C24_PenaltyZpp ==
    last_calc # None /\ last_calc.tool = "zpp" =>
        LET c == last_calc
            goods == RatMul(Rat(c.price, 100), Rat(c.delay_days, 1))
        IN /\ c.amounts.goods = goods
           /\ c.amounts.services = RatMul(goods, Rat(3, 1))
           /\ c.shown[1] \in Format2f(goods)
           /\ c.shown[2] \in Format2f(RatMul(goods, Rat(3, 1)))
           /\ c.price = 100000 /\ c.delay_days = 5 => c.shown = <<500000, 1500000>>

\* the amount for services is above the price
C24_Witness ==
    /\ last_calc # None /\ last_calc.tool = "zpp"
    /\ last_calc.price = 100000 /\ last_calc.delay_days = 34
    /\ last_calc.shown = <<3400000, 10200000>>

\* C25: get_chat_history(user, limit) with an even limit returns the user's latest
\* limit/2 logged pairs (fewer if fewer exist), oldest first, each as the question
\* (human message) followed by its answer (assistant message).
C25_PairsReturned ==
    \A u \in Users, limit \in {2, 4, 6} :
        LET res == get_chat_history(chat_logs, u, limit)
            mine == RowsOf(chat_logs, u)
            k == Min(limit \div 2, Len(mine))
        IN /\ Len(res) = 2 * k
           /\ \A i \in 1..k :
                 /\ res[2 * i - 1] = HumanMessage(mine[Len(mine) - k + i].question)
                 /\ res[2 * i] = AIMessage(mine[Len(mine) - k + i].answer)

\* ------------------------------------------------------------------ start of the process
\* the import of the configuration, then main() and the handlers of one slot
NextConfig ==
    \/ ImportConfig
    \/ MainInitialize
    \/ \E r \in {1, 2}, u \in {1} :
          started < MaxInteractions /\ req[r].pc = "idle" /\ HandleMessage(r, u, <<"q1">>)
    \/ \E u \in {1} : CommandReset(u)
    \/ SvcRun({1, 2}, {TokenChunk("a")}, MaxEvents)

InitConfig == SvcInit({1}) /\ GraphInit({<<>>}) /\ ResInit({GoodEnv}) /\ AppInit(ConfigEnvs)

SpecConfig == InitConfig /\ [][NextConfig]_vars

HandlerHasRun == last_reply # None \/ started > 0 \/ res_status # "none"

\* C26: the import of the configuration raises exactly when BOT_TOKEN is unset or
\* empty, and then nothing of the bot runs; every other option that is unset has
\* its default.
C26_TokenRequired ==
    /\ config.status # "none" =>
          (config.status = "raised" <=> config.env.BOT_TOKEN \in {Unset, ""})
    /\ HandlerHasRun => config.status = "loaded" /\ config.values.BOT_TOKEN = "token"
    /\ config.status = "loaded" =>
          /\ config.env.RETRIEVER_K = Unset => config.values.RETRIEVER_K = RETRIEVER_K_DEFAULT
          /\ config.env.MAX_DISTANCE = Unset => config.values.MAX_DISTANCE = <<>>

C26_Witness ==
    /\ config.status = "raised"
    /\ config.env.BOT_TOKEN = ""
    /\ config.env.RETRIEVER_K = "5"

\* ------------------------------------------------------------------ the tools node called directly
\* states the node is invoked on: the last message is a question, a final answer, a
\* tool result, or an assistant message with a pending call
ToolNodeStates ==
    { <<HumanMessage(<<"q1">>)>>,
      <<SystemMessage(SYSTEM_PROMPT), HumanMessage(<<"q1">>), AIMessage(<<"a">>)>>,
      <<SystemMessage(SYSTEM_PROMPT), HumanMessage(<<"q1">>),
        AIMessageCalls(<<>>, <<[id |-> 1, name |-> "search_laws"]>>),
        ToolMessage(<<"result">>, 1, "success")>>,
      <<SystemMessage(SYSTEM_PROMPT), HumanMessage(<<"q1">>),
        AIMessageCalls(<<>>, <<[id |-> 1, name |-> "search_laws"]>>)>> }

InitToolNode ==
    /\ SvcInit({1}) /\ ResConstructed({GoodEnv}) /\ AppLoaded
    /\ gSeed \in ToolNodeStates
    /\ gMessages = gSeed
    /\ gNode = "tools"
    /\ gPath = <<>>
    /\ gRaw = None

\* CoreToolNode returns results only for an assistant message with calls; without one
\* it raises
NextToolNode ==
    \/ ModelStep
    \/ CallModelRaise
    \/ /\ IsToolCalling(gMessages[Len(gMessages)])
       /\ \E outs \in [1..Len(gMessages[Len(gMessages)].tool_calls) -> ToolOutcomes] :
             ToolsStep(CoreResult(gMessages[Len(gMessages)].tool_calls, outs))
    \/ \E e \in Exceptions : ToolsStep(CoreRaise(e))

SpecToolNode == InitToolNode /\ [][NextToolNode]_vars

CrashWithoutPending ==
    /\ gNode = "tools"
    /\ Len(gPath') = Len(gPath) + 1
    /\ gRaw'.raised
    /\ ~IsToolCalling(gMessages[Len(gMessages)])

\* C27: when the tool machinery raises and the last message is not an assistant
\* message with pending calls, the TOOLS step adds no message and raises nothing: the
\* message sequence is unchanged and the run goes on to the MODEL node.
C27_CrashWithoutPending ==
    [][CrashWithoutPending =>
          /\ gMessages' = gMessages
          /\ propagated' = propagated
          /\ gNode' = ToolsEdge
          /\ safe_tool_node_func(gMessages, gRaw') = <<>>]_vars

C27_Witness ==
    /\ gRaw # None /\ gRaw.raised
    /\ Len(gPath) = 1 /\ gPath[1].node = "tools"
    /\ gMessages = gSeed
    /\ gMessages[Len(gMessages)].type = "tool"

IsPrefix(s, t) == Len(s) <= Len(t) /\ SubSeq(t, 1, Len(s)) = s

StepOf(node) == gNode = node /\ Len(gPath') = Len(gPath) + 1

AppendFrame ==
    /\ IsPrefix(gMessages, gMessages')
    /\ StepOf("agent") /\ gNode' # "RAISED" =>
          /\ Len(gMessages') = Len(gMessages) + 1
          /\ gMessages'[Len(gMessages')].type = "ai"
    /\ StepOf("tools") =>
          \A i \in (Len(gMessages) + 1)..Len(gMessages') : gMessages'[i].type = "tool"

\* C28: the agent state is append-only during a run: a MODEL step appends exactly
\* one assistant message, a TOOLS step appends only tool-result messages, no step
\* removes, reorders or rewrites a message, and the seeded messages stay an
\* unchanged prefix.
C28_AppendOnly ==
    /\ [](IsPrefix(gSeed, gMessages))
    /\ [][AppendFrame]_vars

C28_Witness ==
    /\ gNode = "END"
    /\ Len(gSeed) = 4
    /\ ToolRounds = 2
    /\ Len(gMessages) >= Len(gSeed) + 5

\* the messages a TOOLS step adds when the underlying tool node returned normally
Returned == SubSeq(gMessages', Len(gMessages) + 1, Len(gMessages'))

ToolsReturned == gPath' # gPath /\ gPath'[Len(gPath')].node = "tools" /\ ~gRaw'.raised

RewriteFrame ==
    ToolsReturned =>
        /\ Len(Returned) = Len(gRaw'.messages)
        /\ \A i \in 1..Len(gRaw'.messages) :
              /\ Returned[i].tool_call_id = gRaw'.messages[i].tool_call_id
              /\ ~IsToolError(gRaw'.messages[i]) =>
                    /\ Returned[i].content = gRaw'.messages[i].content
                    /\ Returned[i].status = gRaw'.messages[i].status
                    /\ Returned[i] = gRaw'.messages[i]

\* C29: the error rewriting returns as many messages as the underlying tool node, in
\* the same order, and returns every message that is not an error (status not
\* error, content not beginning with "Error:") identical in content, call
\* identifier and status.
C29_SuccessUntouched == [][RewriteFrame]_vars

\* a TOOLS step has just returned an error before a success in one round
C29_Witness ==
    /\ gPath # <<>> /\ gPath[Len(gPath)].node = "tools"
    /\ gRaw # None /\ ~gRaw.raised
    /\ Len(gRaw.messages) = 2
    /\ IsToolError(gRaw.messages[1])
    /\ ~IsToolError(gRaw.messages[2])
    /\ gMessages[Len(gMessages)] = gRaw.messages[2]
    /\ gMessages[Len(gMessages) - 1] # gRaw.messages[1]

\* ------------------------------------------------------------------ shape of the stored history
\* human at the odd positions, assistant at the even ones
Alternates(h) ==
    \A i \in 1..Len(h) : h[i].type = (IF i % 2 = 1 THEN "human" ELSE "ai")

\* C30: whatever get_answer calls (finishing, failing, overlapping) and
\* reset_history calls have happened, every stored history has an even length of
\* at most 6 and alternates human message, assistant message, human first.
C30_HistoryShape ==
    \A u \in DOMAIN history :
        /\ Len(history[u]) % 2 = 0
        /\ Len(history[u]) <= HISTORY_WINDOW
        /\ Alternates(history[u])

\* a fourth pair has been appended to a full history and the oldest pair trimmed
C30_Witness ==
    /\ 1 \in DOMAIN history
    /\ Len(completed[1]) = 4
    /\ Len(history[1]) = HISTORY_WINDOW
    /\ history[1][HISTORY_WINDOW] = AIMessage(completed[1][4][2])


\* ------------------------------------------------------------------ reset during streaming
\* request r is inside the stream and its user's entry has been deleted meanwhile
ResetWhileStreaming(r) == req[r].pc = "streaming" /\ req[r].user_id \notin DOMAIN history

\* the stream of r ends in this step without the graph raising
StreamExhausted(r) == req'[r].pc = "done" /\ req'[r].error \notin Exceptions

ResetHarmlessFrame ==
    \A r \in Requests :
        ResetWhileStreaming(r) /\ StreamExhausted(r) =>
            /\ ~req'[r].failed
            /\ \A i \in 1..Len(req'[r].delivered) : req'[r].delivered[i] # MSG_APOLOGY
            /\ req[r].user_id \in DOMAIN history'
            /\ LastN(history'[req[r].user_id], 2) =
                  <<HumanMessage(req[r].question), AIMessage(req[r].full_response)>>

\* C31 (as stated): a reset_history(u) that runs while a get_answer(u) is suspended
\* inside streaming does not make it fail: when its stream ends the request
\* completes without the apology and its question/answer pair is stored.
C31_ResetHarmless == [][ResetHarmlessFrame]_vars


\* ------------------------------------------------------------------ failing requests
\* the stored conversation of user u; an entry created by seeding is empty
Conversation(h, u) == IF u \in DOMAIN h THEN h[u] ELSE <<>>

\* request r completes in this step with its pair stored
Succeeds(r) == req[r].pc = "streaming" /\ req'[r].pc = "done" /\ ~req'[r].failed

RecordsNothing ==
    /\ \A u \in Users : Conversation(history', u) = Conversation(history, u)
    /\ log_tasks' = log_tasks
    /\ chat_logs' = chat_logs

FailureFrame ==
    \A r \in Requests : req'[r] # req[r] /\ ~Succeeds(r) => RecordsNothing

\* C32: a request that fails records nothing: every step of a request other than
\* its successful completion (seeding, waiting, streaming, the failure itself)
\* leaves every user's stored conversation, the scheduled log_chat writes and the
\* logged rows as they were.
C32_FailureRecordsNothing == [][FailureFrame]_vars

\* a request has failed after streaming a token, behind a completed one
C32_Witness ==
    /\ \E r \in Requests :
          /\ req[r].pc = "done" /\ req[r].failed /\ req[r].error \in Exceptions
          /\ req[r].user_id = 1 /\ req[r].full_response = <<"a">>
    /\ Len(completed[1]) = 1
    /\ Conversation(history, 1) = <<HumanMessage(completed[1][1][1]), AIMessage(completed[1][1][2])>>
    /\ BagCardinality(log_tasks) + Len(chat_logs) = 1


\* ------------------------------------------------------------------ the gate is not leaked
\* waiters that release has given a permit and that have not resumed yet
Woken == {i \in 1..Len(llm_semaphore.waiters) : llm_semaphore.waiters[i].done}

\* permits free, held by sessions in the generation section, or handed to a waiter
Permits == llm_semaphore.value + Cardinality(InGeneration) + Cardinality(Woken)

\* C33: the gate is released on every exit from the generation section, the exit by
\* an exception of the graph stream included: the permits free, held and handed over
\* always add up to the capacity, and, every admitted session leaving the section
\* eventually, every request waiting for the gate is eventually admitted.
C33_GateNeverLeaked ==
    /\ [](Permits = capacity /\ llm_semaphore.value >= 0)
    /\ \A r \in Requests : (req[r].pc = "waiting") ~> (req[r].pc = "streaming")

\* capacity 1: the only session raised and left, and its permit was handed to the
\* request that had queued behind it
C33_Witness ==
    /\ capacity = 1 /\ started = 2
    /\ \E r, w \in Requests :
          /\ r # w
          /\ req[r].pc = "done" /\ req[r].failed /\ req[r].error \in Exceptions
          /\ req[w].pc = "waiting"
          /\ llm_semaphore.waiters = <<[done |-> TRUE, r |-> w]>>
          /\ llm_semaphore.value = 0


\* ------------------------------------------------------------------ seeding and admission
\* request r enters the generation section in this step
Admitted(r) == req[r].pc \in {"idle", "waiting"} /\ req'[r].pc = "streaming"

SeedAtAdmissionFrame ==
    \A r \in Requests :
        Admitted(r) =>
            SubSeq(req'[r].input_state, 2, Len(req'[r].input_state) - 1) =
                LastN(Conversation(history', req'[r].user_id), HISTORY_WINDOW)

\* C34 (as stated): the conversation window a request is seeded with is the user's
\* stored history at the moment the request is admitted through the gate; a
\* request that waited while an earlier request of the user completed has that
\* request's pair in its seed.
C34_SeedAtAdmission == [][SeedAtAdmissionFrame]_vars


\* ------------------------------------------------------------------ handlers/chat.py
\* texts of bot.core.prompts used by process_question
MSG_CONTINUE == <<"continue">>
MSG_NO_ANSWER == <<"no-answer">>
MSG_GENERATION_ERROR == <<"generation-error">>
MSG_GENERATION_ERROR_SHORT == <<"generation-error-short">>
CURSOR_MARKER == <<"cursor">>
MSG_TOOL_USAGE == <<"tool-usage">>
AGENT_SYSTEM_PROMPT == <<"agent-system-prompt">>

\* a token of two characters
LongChunk == [content |-> <<"b", "c">>, event |-> "on_chat_model_stream", has_chunk |-> TRUE, is_str |-> TRUE]

\* line 57, in characters of the model's texts (4000 in the source)
TELEGRAM_LIMIT == 2
\* line 107: the buffered characters an intermediate edit waits for (30 in the source)
BUFFER_MIN == 1
\* get_chat_history's default limit, database.py line 50
HISTORY_LIMIT == 6

\* lines 76-87: the text one event adds to the display
ChunkText(e) == IF e.event = "on_tool_start" THEN MSG_TOOL_USAGE ELSE TokenText(e)

\* lines 63-70
ChatSeed(rows, u, q) ==
    <<SystemMessage(AGENT_SYSTEM_PROMPT)>> \o get_chat_history(rows, u, HISTORY_LIMIT)
        \o <<HumanMessage(q)>>

\* edit_text on the message created last; a failed edit is logged and leaves it
EditCurrent(f, text, ok) ==
    IF ok THEN [f EXCEPT !.sent[Len(f.sent)] = text]
    ELSE [f EXCEPT !.edit_failed = TRUE]

\* lines 94-104: the finished part is written, a continuation message is created
SplitMessage(f, ok) ==
    [EditCurrent(f, f.display_text, ok) EXCEPT !.sent = Append(@, MSG_CONTINUE),
                                               !.display_text = <<>>,
                                               !.buffer = <<>>]

\* lines 106-113: the intermediate edit with the cursor
CursorEdit(f, ok) ==
    IF ok THEN [EditCurrent(f, f.display_text \o CURSOR_MARKER, ok) EXCEPT !.buffer = <<>>]
    ELSE EditCurrent(f, <<>>, ok)

\* lines 74-113: one event; elapsed: more than 1.5 s since the last update
OnEvent(f, e, elapsed, ok) ==
    LET chunk_text == ChunkText(e)
        g == [f EXCEPT !.emitted = Append(@, e),
                       !.full_response = @ \o TokenText(e),
                       !.display_text = @ \o chunk_text,
                       !.buffer = @ \o chunk_text,
                       !.shown = @ \o chunk_text]
    IN IF chunk_text = <<>> THEN g
       ELSE IF Len(g.display_text) > TELEGRAM_LIMIT THEN SplitMessage(g, ok)
       ELSE IF elapsed /\ Len(g.buffer) > BUFFER_MIN THEN CursorEdit(g, ok)
       ELSE g

\* lines 48-61: the status message, then the lock
PqStart(r, u, q) ==
    /\ pq[r].pc = "idle"
    /\ started' = started + 1
    /\ LET frame == [IdlePq EXCEPT !.user_id = u, !.question = q,
                                   !.before = finished[u],
                                   !.sent = <<MSG_ANALYZING_LAWS>>]
       IN IF ~Locked(llm_lock)
          THEN /\ llm_lock' = [llm_lock EXCEPT !.value = @ - 1]
               /\ pq' = [pq EXCEPT ![r] = [frame EXCEPT !.pc = "locked"]]
          ELSE /\ llm_lock' = [llm_lock EXCEPT
                                  !.waiters = Append(@, [done |-> FALSE, r |-> r])]
               /\ pq' = [pq EXCEPT ![r] = [frame EXCEPT !.pc = "waiting"]]
    /\ UNCHANGED <<history, capacity, llm_semaphore, req, log_tasks, chat_logs,
                   completed, propagated, last_reset, last_clear>>
    /\ UNCHANGED <<graphVars, resVars, last_reply, config, finished>>

\* a waiter that was given the lock resumes
PqResume(r) ==
    /\ pq[r].pc = "waiting"
    /\ \E i \in 1..Len(llm_lock.waiters) : llm_lock.waiters[i].r = r /\ llm_lock.waiters[i].done
    /\ llm_lock' = WakeWhilePositive([llm_lock EXCEPT !.waiters = RemoveWaiter(@, r)])
    /\ pq' = [pq EXCEPT ![r].pc = "locked"]
    /\ UNCHANGED <<svcVars, graphVars, resVars, last_reply, config, finished>>

\* lines 62-70, inside the lock: the history is read from the table
PqFetch(r) ==
    /\ pq[r].pc = "locked"
    /\ pq' = [pq EXCEPT ![r].pc = "streaming",
                        ![r].input_state = ChatSeed(chat_logs, pq[r].user_id, pq[r].question)]
    /\ UNCHANGED <<svcVars, graphVars, resVars, last_reply, config, llm_lock, finished>>

\* lines 73-113
PqEvent(r, e, elapsed, ok) ==
    /\ pq[r].pc = "streaming"
    /\ pq' = [pq EXCEPT ![r] = OnEvent(@, e, elapsed, ok)]
    /\ UNCHANGED <<svcVars, graphVars, resVars, last_reply, config, llm_lock, finished>>

\* the stream ends: the lock is released at line 113
PqLeave(r) ==
    /\ pq[r].pc = "streaming"
    /\ llm_lock' = SemRelease(llm_lock)
    /\ pq' = [pq EXCEPT ![r].pc = "final"]
    /\ UNCHANGED <<svcVars, graphVars, resVars, last_reply, config, finished>>

\* the stream raises: the lock is released, lines 127-130 report the error
PqRaise(r, e) ==
    /\ pq[r].pc = "streaming"
    /\ llm_lock' = SemRelease(llm_lock)
    /\ pq' = [pq EXCEPT ![r] = [EditCurrent(@, MSG_GENERATION_ERROR, TRUE) EXCEPT
                                   !.pc = "done", !.failed = TRUE]]
    /\ UNCHANGED <<svcVars, graphVars, resVars, last_reply, config, finished>>

\* lines 115-125: the final update, then the log_chat task; a failing edit at line
\* 122 is not caught there and ends in lines 127-132
PqFinal(r, ok) ==
    /\ pq[r].pc = "final"
    /\ LET f == pq[r]
           row == [user_id |-> f.user_id, question |-> f.question, answer |-> f.full_response]
           raised == f.display_text = <<>> /\ f.full_response = <<>> /\ ~ok
           g == IF f.display_text # <<>> THEN EditCurrent(f, f.display_text, ok)
                ELSE IF f.full_response = <<>>
                     THEN IF ok THEN EditCurrent(f, MSG_NO_ANSWER, TRUE)
                          ELSE [f EXCEPT !.sent = Append(@, MSG_GENERATION_ERROR_SHORT),
                                         !.failed = TRUE]
                     ELSE f
       IN /\ pq' = [pq EXCEPT ![r] = [g EXCEPT !.pc = "done"]]
          /\ log_tasks' = IF raised THEN log_tasks ELSE ScheduleLog(log_tasks, row)
          /\ finished' = IF raised THEN finished
                         ELSE [finished EXCEPT ![f.user_id] = Append(@, <<f.question, f.full_response>>)]
    /\ UNCHANGED <<history, capacity, llm_semaphore, req, chat_logs, started,
                   completed, propagated, last_reset, last_clear>>
    /\ UNCHANGED <<graphVars, resVars, last_reply, config, llm_lock>>

\* process_question has returned; the slot is free for the next message
PqReturn(r) ==
    /\ pq[r].pc = "done"
    /\ pq' = [pq EXCEPT ![r] = IdlePq]
    /\ UNCHANGED <<svcVars, graphVars, resVars, last_reply, config, llm_lock, finished>>

\* the chat handlers with slots R, users U, questions Q and stream events E, at
\* most maxI calls of process_question and maxE events per stream
ChatNext(R, U, Q, E, maxI, maxE) ==
    \/ \E r \in R, u \in U, q \in Q : started < maxI /\ PqStart(r, u, <<q>>)
    \/ \E r \in R : PqResume(r)
    \/ \E r \in R : PqFetch(r)
    \/ \E r \in R, e \in E, elapsed \in BOOLEAN, ok \in BOOLEAN :
          Len(pq[r].emitted) < maxE /\ PqEvent(r, e, elapsed, ok)
    \/ \E r \in R : PqLeave(r)
    \/ \E r \in R, e \in Exceptions : PqRaise(r, e)
    \/ \E r \in R, ok \in BOOLEAN : PqFinal(r, ok)
    \/ \E r \in R : PqReturn(r)

\* the log_chat tasks run whenever the event loop takes them
LogNext ==
    \/ \E row \in BagToSet(log_tasks) : LogChat(row)
    \/ \E row \in BagToSet(log_tasks) : LogChatFail(row)

\* chat path: two slots of one user and the table
ChatInteractions == 2
NextChat ==
    \/ ChatNext({1, 2}, {1}, {"q1", "q2"}, {TokenChunk("a")}, ChatInteractions, MaxEvents)
    \/ LogNext

SpecChat == Init /\ [][NextChat]_vars


\* ------------------------------------------------------------------ chat path: the history read
\* the call in slot r has read its history
Fetched(r) == pq[r].pc \in {"streaming", "final", "done"}

\* the pair (q, a) stands in the messages
HasPair(messages, q, a) ==
    \E k \in 1..(Len(messages) - 1) :
        messages[k] = HumanMessage(q) /\ messages[k + 1] = AIMessage(a)

\* C35 (as stated): on the chat path a call of a user that starts after an earlier
\* call of that user has returned has the earlier question/answer pair (answer not
\* empty) in the history it reads from the table.
C35_SeesEarlierPair ==
    \A r \in Requests :
        Fetched(r) =>
            \A i \in 1..Len(pq[r].before) :
                pq[r].before[i][2] # <<>> =>
                    HasPair(pq[r].input_state, pq[r].before[i][1], pq[r].before[i][2])


\* ------------------------------------------------------------------ get_chat_history: size and shape
\* the limits asked for
Limits == 0..HISTORY_LIMIT

\* C36 (as stated): get_chat_history(user, limit) returns at most limit messages
\* for every limit >= 0, odd limits included, and what it returns alternates human
\* message, assistant message, human first, whatever was logged, interactions
\* logged with an empty answer included.
C36_BoundedAlternating ==
    \A u \in Users, limit \in Limits :
        LET res == get_chat_history(chat_logs, u, limit)
        IN Len(res) <= limit /\ Alternates(res)

\* the second half alone: the shape of the result for the default limit
DefaultLimitAlternates ==
    \A u \in Users : Alternates(get_chat_history(chat_logs, u, HISTORY_LIMIT))

\* the first half alone
AtMostLimit ==
    \A u \in Users, limit \in Limits : Len(get_chat_history(chat_logs, u, limit)) <= limit


\* ------------------------------------------------------------------ chat path: long answers
\* slot 1 streams tool markers and tokens of one and two characters, slot 2 competes
\* for the lock with an empty stream
SplitEvents == 3
NextSplit ==
    \/ ChatNext({1}, {1}, {"q1"}, {ToolStart, TokenChunk("a"), LongChunk}, 2, SplitEvents)
    \/ ChatNext({2}, {1}, {"q1"}, {}, 2, MaxEvents)
    \/ LogNext

SpecSplit == Init /\ [][NextSplit]_vars

RECURSIVE Concat(_)
Concat(texts) == IF texts = <<>> THEN <<>> ELSE Head(texts) \o Concat(Tail(texts))

EndsWith(s, suffix) ==
    Len(s) >= Len(suffix) /\ SubSeq(s, Len(s) - Len(suffix) + 1, Len(s)) = suffix

\* the call in slot r is over, something was displayed, no edit failed
SplitDone(r) ==
    pq[r].pc = "done" /\ ~pq[r].failed /\ ~pq[r].edit_failed /\ pq[r].shown # <<>>

\* C37 (as stated): after a call that displayed fragments and had no failed edit,
\* the final texts of the messages created for it, concatenated in creation order,
\* are the displayed fragments in stream order, and no message is left with the
\* status text, the continuation marker or the cursor.
C37_SplitLossless ==
    \A r \in Requests :
        SplitDone(r) =>
            /\ Concat(pq[r].sent) = pq[r].shown
            /\ \A i \in 1..Len(pq[r].sent) :
                  /\ pq[r].sent[i] \notin {MSG_ANALYZING_LAWS, MSG_CONTINUE}
                  /\ ~EndsWith(pq[r].sent[i], CURSOR_MARKER)

\* the same for the calls whose last displayed fragment did not start a new message
SplitLosslessUnlessSplitLast ==
    \A r \in Requests :
        SplitDone(r) /\ pq[r].display_text # <<>> =>
            /\ Concat(pq[r].sent) = pq[r].shown
            /\ \A i \in 1..Len(pq[r].sent) :
                  /\ pq[r].sent[i] \notin {MSG_ANALYZING_LAWS, MSG_CONTINUE}
                  /\ ~EndsWith(pq[r].sent[i], CURSOR_MARKER)


\* the chat path's counterpart of FailureFrame: only the final update of a call
\* that did not fail creates a log_chat task, and no step of a call writes a row
ChatFailureFrame ==
    \A r \in Requests :
        pq'[r] # pq[r] /\ ~(pq[r].pc = "final" /\ ~pq'[r].failed) =>
            log_tasks' = log_tasks /\ chat_logs' = chat_logs

ChatFailureRecordsNothing == [][ChatFailureFrame]_vars

=============================================================================
